---- MODULE Spec2Model ----
(***************************************************************************)
(* Verification model of the financial-model-analyzer backend:             *)
(*   - UniversalExcelParser.match_line_items / calculate_variances         *)
(*   - the variance loop of the /variance endpoint (get_executive_summary) *)
(*   - UniversalExcelParser.parse_financial_statements                     *)
(*   - UniversalExcelParser.drill_down_variance and the dependency-tree    *)
(*     build it calls                                                      *)
(*   - TemplateBasedPeriodParser: template synthesis and expansion         *)
(*   - period detection and find_period_header_row                         *)
(*   - the workbook handles of a parse call                                *)
(*   - the session endpoints of upload.py and analysis.py                  *)
(*   - sheet-type detection of both parsers                                *)
(*   - line-item extraction of _parse_sheet (_extract_line_items)          *)
(*   - UniversalExcelParser._sort_periods_chronologically                  *)
(* Text (labels, period names) is a sequence of one-character strings.     *)
(***************************************************************************)
EXTENDS Integers, Sequences, FiniteSets, TLC

VARIABLES
    old_statement,   \* FinancialStatement handed in as the old side
    new_statement,   \* FinancialStatement handed in as the new side
    period,          \* requested period name
    matches,         \* outcome of match_line_items(old_statement, new_statement)
    swapped_matches, \* outcome of match_line_items(new_statement, old_statement)
    variances,       \* outcome of calculate_variances(old, new, period, matches)
    summary,         \* variance_data built by get_executive_summary for the pair
    file_state,      \* the Excel file of a parse call: ok, missing, locked, corrupt
    workbook,        \* sheet number -> what the workbook holds for that sheet
    selected_sheets, \* the requested {statement_type: sheet_name}, in dict order
    parse_result,    \* what parse_financial_statements hands to its caller
    parsing_errors,  \* the parsing_errors list of that call (logged only)
    old_file,        \* the old Excel file of a drill-down call
    new_file,        \* the new Excel file of a drill-down call
    drill_request,   \* [sheet_name, line_item_name, period] of that call
    drill_result,    \* what drill_down_variance hands to its caller, and
                     \* the cells it asked dependency trees for
    sample_periods,  \* periods handed to suggest_templates_from_samples
    year_range,      \* (start_year, end_year) of the template expansion
    templates,       \* outcome of suggest_templates_from_samples
    generated,       \* outcome of generate_periods_from_templates
    scan_sheet,      \* the worksheet handed to period detection
    detected,        \* outcome of _detect_periods_with_templates(scan_sheet)
    period_header_row, \* outcome of find_period_header_row(scan_sheet)
    parse_env,       \* what a parse call meets: file, sheet, cached workbooks
    handle_log,      \* the workbook handles that call opened and closed
    active_sessions, \* upload.active_sessions: session id -> session dict
    uploads,         \* the upload directory: session id -> the saved file pair
    response,        \* the response to the last request served
    formula_cells,   \* the cells of a drilled sheet: address -> [refs, op, value]
    tree_root,       \* the cell address a dependency-tree build starts at
    dependency_tree, \* outcome of build_dependency_tree(.., max_depth=2)
    sheet_title,     \* the name of a sheet whose type is detected
    sheet_sample,    \* the cells of sheet_info['sample_data']
    sheet_type,      \* outcome of DualExcelParser._detect_sheet_type
    sheet_type_enhanced, \* outcome of _detect_sheet_type_enhanced
    extract_sheet,   \* the worksheet handed to _parse_sheet
    line_items,      \* outcome of _extract_line_items on it, with the periods
    unsorted_periods, \* the list handed to _sort_periods_chronologically
    sorted_periods   \* what it returns

matchVars == <<old_statement, new_statement, period, matches, swapped_matches,
               variances, summary>>

parseVars == <<file_state, workbook, selected_sheets, parse_result,
               parsing_errors>>

drillVars == <<old_file, new_file, drill_request, drill_result>>

templateVars == <<sample_periods, year_range, templates, generated>>

scanVars == <<scan_sheet, detected, period_header_row>>

handleVars == <<parse_env, handle_log>>

sessionVars == <<active_sessions, uploads, response>>

treeVars == <<formula_cells, tree_root, dependency_tree>>

typeVars == <<sheet_title, sheet_sample, sheet_type, sheet_type_enhanced>>

extractVars == <<extract_sheet, line_items>>

sortVars == <<unsorted_periods, sorted_periods>>

vars == <<matchVars, parseVars, drillVars, templateVars, scanVars,
          handleVars, sessionVars, treeVars, typeVars, extractVars, sortVars>>

\* what a step of one component leaves alone
matchOthers == <<parseVars, drillVars, templateVars, scanVars, handleVars,
                 sessionVars, treeVars, typeVars, extractVars, sortVars>>
parseOthers == <<matchVars, drillVars, templateVars, scanVars, handleVars,
                 sessionVars, treeVars, typeVars, extractVars, sortVars>>
drillOthers == <<matchVars, parseVars, templateVars, scanVars, handleVars,
                 sessionVars, treeVars, typeVars, extractVars, sortVars>>
templateOthers == <<matchVars, parseVars, drillVars, scanVars, handleVars,
                    sessionVars, treeVars, typeVars, extractVars, sortVars>>
scanOthers == <<matchVars, parseVars, drillVars, templateVars, handleVars,
                sessionVars, treeVars, typeVars, extractVars, sortVars>>
handleOthers == <<matchVars, parseVars, drillVars, templateVars, scanVars,
                  sessionVars, treeVars, typeVars, extractVars, sortVars>>
sessionOthers == <<matchVars, parseVars, drillVars, templateVars, scanVars,
                   handleVars, treeVars, typeVars, extractVars, sortVars>>
treeOthers == <<matchVars, parseVars, drillVars, templateVars, scanVars,
                handleVars, sessionVars, typeVars, extractVars, sortVars>>
typeOthers == <<matchVars, parseVars, drillVars, templateVars, scanVars,
                handleVars, sessionVars, treeVars, extractVars, sortVars>>
extractOthers == <<matchVars, parseVars, drillVars, templateVars, scanVars,
                   handleVars, sessionVars, treeVars, typeVars, sortVars>>
sortOthers == <<matchVars, parseVars, drillVars, templateVars, scanVars,
                handleVars, sessionVars, treeVars, typeVars, extractVars>>

----------------------------------------------------------------------------
(* Bounds *)

MaxLabelLen == 4     \* longest label drawn
MaxItems == 2        \* most line items in one statement
MaxRow == 2          \* rows below the header that can hold a line item
MaxValue == 2        \* small cell values range over -MaxValue..MaxValue
NumSheets == 3       \* sheet names a request can mention
MaxColumn == 3       \* rightmost column a period can be in
MaxSamples == 2       \* most periods in sample_periods
MaxYearSpan == 1      \* a narrowed year range covers 1 + MaxYearSpan years
MaxRequested == 3    \* most entries in selected_sheets
MaxFormulaCells == 2 \* most formula cells line-item extraction visits
MaxSessions == 2     \* most sessions uploaded
MaxCells == 2        \* cells of a formula graph
MaxSampleCells == 2  \* most cells in sample_data
MaxSorted == 3        \* most periods in a list to sort

FirstDataRow == 2    \* the row right below a header in row 1

----------------------------------------------------------------------------
(* Generic helpers *)

Range(s) == {s[i] : i \in DOMAIN s}

InSeq(x, s) == \E i \in DOMAIN s : s[i] = x

\* list.remove(x): drops the first occurrence of x
RECURSIVE RemoveFirst(_, _)
RemoveFirst(s, x) ==
    IF s = <<>> THEN <<>>
    ELSE IF Head(s) = x THEN Tail(s)
    ELSE <<Head(s)>> \o RemoveFirst(Tail(s), x)

Max2(a, b) == IF a >= b THEN a ELSE b

----------------------------------------------------------------------------
(* Text *)

LowerChars == <<"a", "b", "c", "d", "e", "f", "g", "h", "i", "j", "k", "l", "m",
               "n", "o", "p", "q", "r", "s", "t", "u", "v", "w", "x", "y", "z">>
UpperChars == <<"A", "B", "C", "D", "E", "F", "G", "H", "I", "J", "K", "L", "M",
               "N", "O", "P", "Q", "R", "S", "T", "U", "V", "W", "X", "Y", "Z">>

\* str.lower() on one character
LowerChar(c) ==
    IF \E i \in DOMAIN UpperChars : UpperChars[i] = c
    THEN LowerChars[CHOOSE i \in DOMAIN UpperChars : UpperChars[i] = c]
    ELSE c

\* str.lower()
Lower(s) == [i \in DOMAIN s |-> LowerChar(s[i])]

\* length of the longest common subsequence of a and b
RECURSIVE LCS(_, _)
LCS(a, b) ==
    IF a = <<>> \/ b = <<>> THEN 0
    ELSE IF Head(a) = Head(b) THEN 1 + LCS(Tail(a), Tail(b))
    ELSE Max2(LCS(Tail(a), b), LCS(a, Tail(b)))

\* int(round(x)) for x = num/den, Python rounding (ties to even)
RoundDiv(num, den) ==
    LET q == num \div den
        r == num % den
    IN  IF 2 * r > den THEN q + 1
        ELSE IF 2 * r = den THEN q + (q % 2)
        ELSE q

\* fuzz.ratio(s1, s2): 100 for equal strings, 0 when either is empty, else
\* the edit-distance ratio 2*M/T in percent, rounded
FuzzRatio(s1, s2) ==
    IF s1 = s2 THEN 100
    ELSE IF Len(s1) = 0 \/ Len(s2) = 0 THEN 0
    ELSE RoundDiv(200 * LCS(s1, s2), Len(s1) + Len(s2))

----------------------------------------------------------------------------
(* FinancialStatement and LineItem                                         *)
(* line_items is a dict in insertion order: a sequence of LineItem records,*)
(* each carrying the dict key it is stored under.  _extract_line_items     *)
(* stores an item under its row number; the matcher, calculate_variances   *)
(* and drill_down_variance are written for dicts keyed by the item name.   *)

RowKey(r) == [kind |-> "row", row |-> r, name |-> <<>>]
NameKey(n) == [kind |-> "name", row |-> 0, name |-> n]
None == [kind |-> "none", row |-> 0, name |-> <<>>]

\* list(statement.line_items.keys())
Keys(statement) ==
    [i \in DOMAIN statement.line_items |-> statement.line_items[i].key]

\* statement.line_items.get(key): the item stored under key, or None
GetItem(statement, key) ==
    IF \E i \in DOMAIN statement.line_items : statement.line_items[i].key = key
    THEN statement.line_items[
             CHOOSE i \in DOMAIN statement.line_items :
                 statement.line_items[i].key = key]
    ELSE None

\* key.lower() exists only for str keys; an int key raises AttributeError
HasLower(key) == key.kind = "name"

----------------------------------------------------------------------------
(* UniversalExcelParser.match_line_items *)

similarity_threshold == 85

\* ExactPass comparing each old item with the first remaining new item only
RECURSIVE ExactPass_FirstOnly(_, _, _, _)
ExactPass_FirstOnly(todo, new_items, matched, exact_matches) ==
    IF todo = <<>>
    THEN [matches |-> matched, exact_matches |-> exact_matches,
          new_items |-> new_items]
    ELSE LET old_item == Head(todo) IN
         IF new_items # <<>> /\ Head(new_items) = old_item
         THEN ExactPass_FirstOnly(Tail(todo), Tail(new_items),
                                  Append(matched, <<old_item, old_item>>),
                                  Append(exact_matches, old_item))
         ELSE ExactPass_FirstOnly(Tail(todo), new_items, matched,
                                  exact_matches)

\* first pass, the loop over old_items[:] : state is (matches, exact_matches,
\* new_items)
RECURSIVE ExactPass(_, _, _, _)
ExactPass(todo, new_items, matched, exact_matches) ==
    IF todo = <<>>
    THEN [matches |-> matched, exact_matches |-> exact_matches,
          new_items |-> new_items]
    ELSE LET old_item == Head(todo) IN
         IF InSeq(old_item, new_items)
         THEN ExactPass(Tail(todo), RemoveFirst(new_items, old_item),
                        Append(matched, <<old_item, old_item>>),
                        Append(exact_matches, old_item))
         ELSE ExactPass(Tail(todo), new_items, matched, exact_matches)

\* "for item in exact_matches: old_items.remove(item)"
RECURSIVE RemoveAll(_, _)
RemoveAll(old_items, exact_matches) ==
    IF exact_matches = <<>> THEN old_items
    ELSE RemoveAll(RemoveFirst(old_items, Head(exact_matches)),
                   Tail(exact_matches))

\* BestMatch without "score > best_score": the last candidate at or above the
\* threshold wins
RECURSIVE BestMatch_LastAbove(_, _, _, _)
BestMatch_LastAbove(old_item, candidates, best_match, best_score) ==
    IF candidates = <<>>
    THEN [raised |-> FALSE, best_match |-> best_match]
    ELSE LET new_item == Head(candidates) IN
         IF ~HasLower(old_item) \/ ~HasLower(new_item)
         THEN [raised |-> TRUE, best_match |-> None]
         ELSE LET score == FuzzRatio(Lower(old_item.name), Lower(new_item.name))
              IN  IF score >= similarity_threshold
                  THEN BestMatch_LastAbove(old_item, Tail(candidates),
                                           new_item, score)
                  ELSE BestMatch_LastAbove(old_item, Tail(candidates),
                                           best_match, best_score)

\* inner loop of the second pass: the best remaining candidate of old_item
RECURSIVE BestMatch(_, _, _, _)
BestMatch(old_item, candidates, best_match, best_score) ==
    IF candidates = <<>>
    THEN [raised |-> FALSE, best_match |-> best_match]
    ELSE LET new_item == Head(candidates) IN
         IF ~HasLower(old_item) \/ ~HasLower(new_item)
         THEN [raised |-> TRUE, best_match |-> None]
         ELSE LET score == FuzzRatio(Lower(old_item.name), Lower(new_item.name))
              IN  IF score > best_score /\ score >= similarity_threshold
                  THEN BestMatch(old_item, Tail(candidates), new_item, score)
                  ELSE BestMatch(old_item, Tail(candidates), best_match,
                                 best_score)

\* "if best_match:" is Python truthiness: None and the empty string are false
Truthy(key) == key # None /\ ~(key.kind = "name" /\ key.name = <<>>)

\* FuzzyPass without "new_items.remove(best_match)"
RECURSIVE FuzzyPass_KeepsCandidate(_, _, _)
FuzzyPass_KeepsCandidate(old_items, new_items, matched) ==
    IF old_items = <<>>
    THEN [status |-> "returned", pairs |-> matched]
    ELSE LET old_item == Head(old_items)
             best == BestMatch(old_item, new_items, None, 0)
         IN  IF best.raised
             THEN [status |-> "AttributeError", pairs |-> <<>>]
             ELSE IF Truthy(best.best_match)
             THEN FuzzyPass_KeepsCandidate(Tail(old_items), new_items,
                      Append(matched, <<old_item, best.best_match>>))
             ELSE FuzzyPass_KeepsCandidate(Tail(old_items), new_items, matched)

\* second pass, the loop over the remaining old_items
RECURSIVE FuzzyPass(_, _, _)
FuzzyPass(old_items, new_items, matched) ==
    IF old_items = <<>>
    THEN [status |-> "returned", pairs |-> matched]
    ELSE LET old_item == Head(old_items)
             best == BestMatch(old_item, new_items, None, 0)
         IN  IF best.raised
             THEN [status |-> "AttributeError", pairs |-> <<>>]
             ELSE IF Truthy(best.best_match)
             THEN FuzzyPass(Tail(old_items),
                            RemoveFirst(new_items, best.best_match),
                            Append(matched, <<old_item, best.best_match>>))
             ELSE FuzzyPass(Tail(old_items), new_items, matched)

\* match_line_items(old, new): [status, pairs]; status is "returned" or the
\* exception that escapes
match_line_items(old, new) ==
    LET first == ExactPass(Keys(old), Keys(new), <<>>, <<>>)
        old_items == RemoveAll(Keys(old), first.exact_matches)
    IN  FuzzyPass(old_items, first.new_items, first.matches)

----------------------------------------------------------------------------
(* Numbers: a cell value is an integer; a percentage is the exact fraction *)
(* [num, den] in lowest terms with den > 0                                 *)

Abs(x) == IF x < 0 THEN -x ELSE x

RECURSIVE GCD(_, _)
GCD(a, b) == IF b = 0 THEN a ELSE GCD(b, a % b)

Fraction(num, den) ==
    LET g == GCD(Abs(num), Abs(den))
        sign == IF den < 0 THEN -1 ELSE 1
    IN  [num |-> sign * (num \div g), den |-> sign * (den \div g)]

Zero == [num |-> 0, den |-> 1]

\* values.get(p, 0.0)
ValueAt(item, p) == IF p \in DOMAIN item.values THEN item.values[p] ELSE 0

\* "(absolute_variance / old_value * 100) if old_value != 0 else 0"
PercentageVariance(absolute_variance, old_value) ==
    IF old_value # 0 THEN Fraction(absolute_variance * 100, old_value)
    ELSE Zero

\* the difference taken the wrong way round
AbsoluteVariance_Reversed(old_value, new_value) == old_value - new_value

\* new_value - old_value
AbsoluteVariance(old_value, new_value) == new_value - old_value

----------------------------------------------------------------------------
(* UniversalExcelParser.calculate_variances *)

\* the record stored under variances[old_name]
VarianceRecord(old_name, new_name, old_item, new_item, p) ==
    LET old_value == ValueAt(old_item, p)
        new_value == ValueAt(new_item, p)
        absolute_variance == AbsoluteVariance(old_value, new_value)
    IN  [line_item_name |-> old_name,
         matched_with |-> IF old_name # new_name THEN new_name ELSE None,
         old_value |-> old_value,
         new_value |-> new_value,
         absolute_variance |-> absolute_variance,
         percentage_variance |->
             PercentageVariance(absolute_variance, old_value),
         has_formula |-> old_item.formula # "None" \/ new_item.formula # "None"]

\* dict[key] = rec on a dict kept as a sequence of [key, rec] in insertion order
DictPut(dict, key, rec) ==
    IF \E i \in DOMAIN dict : dict[i].key = key
    THEN [i \in DOMAIN dict |->
              IF dict[i].key = key THEN [key |-> key, rec |-> rec] ELSE dict[i]]
    ELSE Append(dict, [key |-> key, rec |-> rec])

RECURSIVE calculate_variances(_, _, _, _, _)
calculate_variances(old, new, p, pairs, acc) ==
    IF pairs = <<>> THEN acc
    ELSE LET old_name == Head(pairs)[1]
             new_name == Head(pairs)[2]
             old_item == GetItem(old, old_name)
             new_item == GetItem(new, new_name)
         IN  IF old_item # None /\ new_item # None
             THEN calculate_variances(old, new, p, Tail(pairs),
                      DictPut(acc, old_name,
                          VarianceRecord(old_name, new_name, old_item,
                                         new_item, p)))
             ELSE calculate_variances(old, new, p, Tail(pairs), acc)

----------------------------------------------------------------------------
(* get_executive_summary: the variance computation for one statement type *)

\* Python "a in b" on strings: a occurs in b as a contiguous substring
IsSubstring(a, b) ==
    \E i \in 0..(Len(b) - Len(a)) : SubSeq(b, i + 1, i + Len(a)) = a

\* the period a statement is read at: the requested period when the statement
\* has it, else the first period that contains it or is contained in it, else
\* None
RECURSIVE FirstSimilar(_, _)
FirstSimilar(p, periods) ==
    IF periods = <<>> THEN <<>>
    ELSE IF IsSubstring(p, Head(periods)) \/ IsSubstring(Head(periods), p)
    THEN Head(periods)
    ELSE FirstSimilar(p, Tail(periods))

PeriodFound(p, periods) ==
    IF InSeq(p, periods) THEN p ELSE FirstSimilar(p, periods)

\* the new item an old item is compared with: same dict key first, else the
\* first new item of the same name, else None
RECURSIVE FirstNamed(_, _)
FirstNamed(name, items) ==
    IF items = <<>> THEN None
    ELSE IF Head(items).name = name THEN Head(items)
    ELSE FirstNamed(name, Tail(items))

\* the lookup taken the other way round: the name first, then the key
NewLineItemFor_NameFirst(old_line_item, new) ==
    IF FirstNamed(old_line_item.name, new.line_items) # None
    THEN FirstNamed(old_line_item.name, new.line_items)
    ELSE GetItem(new, old_line_item.key)

NewLineItemFor(old_line_item, new) ==
    IF InSeq(old_line_item.key, Keys(new))
    THEN GetItem(new, old_line_item.key)
    ELSE FirstNamed(old_line_item.name, new.line_items)

SummaryRecord(old_line_item, new_line_item, old_period_found, new_period_found) ==
    LET old_value == ValueAt(old_line_item, old_period_found)
        new_value == ValueAt(new_line_item, new_period_found)
        absolute_variance == AbsoluteVariance(old_value, new_value)
    IN  [line_item_name |-> old_line_item.name,
         old_value |-> old_value,
         new_value |-> new_value,
         absolute_variance |-> absolute_variance,
         percentage_variance |->
             IF old_value # 0 THEN Fraction(absolute_variance * 100, old_value)
             ELSE Zero,
         has_formula |-> old_line_item.formula # "None",
         row_index |-> old_line_item.row_number]

\* the loop over old_line_items_dict.items(), statement_variances keyed by name
RECURSIVE StatementVariances(_, _, _, _, _)
StatementVariances(todo, new, old_period_found, new_period_found, acc) ==
    IF todo = <<>> THEN acc
    ELSE LET old_line_item == Head(todo)
             new_line_item == NewLineItemFor(old_line_item, new)
         IN  IF new_line_item # None
             THEN StatementVariances(Tail(todo), new, old_period_found,
                      new_period_found,
                      DictPut(acc, old_line_item.name,
                          SummaryRecord(old_line_item, new_line_item,
                                        old_period_found, new_period_found)))
             ELSE StatementVariances(Tail(todo), new, old_period_found,
                      new_period_found, acc)

\* variance_data for a session whose models hold one statement type
VarianceData(old, new, p) ==
    LET old_period_found == PeriodFound(p, old.periods)
        new_period_found == PeriodFound(p, new.periods)
        statement_variances ==
            IF old_period_found # <<>> /\ new_period_found # <<>>
            THEN StatementVariances(old.line_items, new, old_period_found,
                                    new_period_found, <<>>)
            ELSE <<>>
    IN  [status |-> "calculated",
         period |-> p,
         statements_analyzed |->
             IF statement_variances # <<>> THEN <<"income_statement">>
             ELSE <<>>,
         variances |-> statement_variances,
         total_line_items |-> Len(statement_variances)]

----------------------------------------------------------------------------
(* Inputs of the matching and variance operations *)

\* the first n characters of the alphabet, in lower or upper case
Prefix(chars, n) == SubSeq(chars, 1, n)

\* labels: near-identical names of three lengths in two spellings
LabelPool ==
    {Prefix(LowerChars, n) : n \in (MaxLabelLen - 2)..MaxLabelLen}
        \cup {Prefix(UpperChars, n) : n \in (MaxLabelLen - 2)..MaxLabelLen}

RowLabelPool == {Prefix(LowerChars, n) : n \in (MaxLabelLen - 1)..MaxLabelLen}

\* period names: "25", "3Q25", "2025"
PeriodPool == {<<"2", "5">>, <<"3", "Q", "2", "5">>, <<"2", "0", "2", "5">>}

DefaultPeriod == <<"3", "Q", "2", "5">>

ValuePool == (-MaxValue..MaxValue) \cup {500, 1000000, 1150000}

InjectiveSeqs(S, n) ==
    {q \in UNION {[1..k -> S] : k \in 0..n} :
        \A i, j \in DOMAIN q : i # j => q[i] # q[j]}

LineItem(key, name, row, values, formula) ==
    [key |-> key, name |-> name, row_number |-> row, values |-> values,
     formula |-> formula]

Statement(periods, items) == [periods |-> periods, line_items |-> items]

\* statements whose line_items dict is keyed by item name
NameKeyedStatements ==
    {Statement(<<DefaultPeriod>>,
               [i \in DOMAIN names |->
                   LineItem(NameKey(names[i]), names[i], FirstDataRow + i - 1,
                            (DefaultPeriod :> i), "None")]) :
        names \in InjectiveSeqs(LabelPool, MaxItems)}

\* statements as _extract_line_items builds them: keyed by row number, in
\* ascending row order, names free
RowsOf(R) ==
    CHOOSE q \in [1..Cardinality(R) -> R] :
        \A i, j \in DOMAIN q : i < j => q[i] < q[j]

RowKeyedStatements ==
    UNION {
        {Statement(<<DefaultPeriod>>,
                   [i \in 1..Cardinality(R) |->
                       LineItem(RowKey(RowsOf(R)[i]), name[RowsOf(R)[i]],
                                RowsOf(R)[i], (DefaultPeriod :> i), "None")]) :
            name \in [R -> RowLabelPool]} :
        R \in SUBSET (FirstDataRow..(FirstDataRow + MaxRow - 1))}

\* one-item statements whose periods and values vary
ValueStatements(key) ==
    UNION {
        {Statement(periods,
                   <<LineItem(key, Prefix(LowerChars, MaxLabelLen),
                              FirstDataRow, values, formula)>>) :
            values \in UNION {[D -> ValuePool] : D \in SUBSET Range(periods)},
            formula \in {"None", "=A1+A2"}} :
        periods \in InjectiveSeqs(PeriodPool, 1) \ {<<>>}}

Pending == [status |-> "pending"]

Scenarios ==
    (NameKeyedStatements \X NameKeyedStatements \X {DefaultPeriod})
        \cup (RowKeyedStatements \X RowKeyedStatements \X {DefaultPeriod})
        \cup UNION {ValueStatements(key) \X ValueStatements(key) \X PeriodPool :
                       key \in {RowKey(FirstDataRow),
                                NameKey(Prefix(LowerChars, MaxLabelLen))}}

MatchInit ==
    /\ \E sc \in Scenarios :
          /\ old_statement = sc[1]
          /\ new_statement = sc[2]
          /\ period = sc[3]
    /\ matches = Pending
    /\ swapped_matches = Pending
    /\ variances = Pending
    /\ summary = Pending

----------------------------------------------------------------------------
(* Operations *)

\* matches = parser.match_line_items(old_statement, new_statement)
MatchLineItems ==
    /\ matches = Pending
    /\ matches' = match_line_items(old_statement, new_statement)
    /\ UNCHANGED <<old_statement, new_statement, period, swapped_matches,
                   variances, summary,
                   matchOthers>>

\* the same call with the two statements exchanged
MatchLineItemsSwapped ==
    /\ matches # Pending
    /\ swapped_matches = Pending
    /\ swapped_matches' = match_line_items(new_statement, old_statement)
    /\ UNCHANGED <<old_statement, new_statement, period, matches, variances,
                   summary,
                   matchOthers>>

\* parser.calculate_variances(old_statement, new_statement, period, matches)
CalculateVariances ==
    /\ matches # Pending
    /\ matches.status = "returned"
    /\ variances = Pending
    /\ variances' =
           [status |-> "returned",
            records |-> calculate_variances(old_statement, new_statement,
                                            period, matches.pairs, <<>>)]
    /\ UNCHANGED <<old_statement, new_statement, period, matches,
                   swapped_matches, summary,
                   matchOthers>>

\* GET /variance/{session_id}?period=... on a session holding the two models
GetExecutiveSummary ==
    /\ summary = Pending
    /\ summary' = VarianceData(old_statement, new_statement, period)
    /\ UNCHANGED <<old_statement, new_statement, period, matches,
                   swapped_matches, variances,
                   matchOthers>>

MatchNext ==
    \/ MatchLineItems
    \/ MatchLineItemsSwapped
    \/ CalculateVariances
    \/ GetExecutiveSummary

----------------------------------------------------------------------------
(* Properties of matching and variance computation *)

OldKeys == Range(Keys(old_statement))
NewKeys == Range(Keys(new_statement))

PairSet(result) == Range(result.pairs)

Swap(pairs) == {<<p[2], p[1]>> : p \in pairs}

IdenticalPairs(pairs) == {p \in pairs : p[1] = p[2]}

\* the percentage q is exactly absolute_variance / old_value * 100, in lowest
\* terms (stated through the quotient old_value / q.den, which is exact)
IsPercentageOf(q, absolute_variance, old_value) ==
    /\ q.den > 0
    /\ old_value % q.den = 0
    /\ q.num * (old_value \div q.den) = absolute_variance * 100

VarianceArithmetic(r) ==
    /\ r.absolute_variance = r.new_value - r.old_value
    /\ r.old_value # 0 =>
           IsPercentageOf(r.percentage_variance, r.absolute_variance,
                          r.old_value)
    /\ r.old_value = 0 => r.percentage_variance = Zero
    /\ (r.old_value = 1000000 /\ r.new_value = 1150000) =>
           /\ r.absolute_variance = 150000
           /\ r.percentage_variance = [num |-> 15, den |-> 1]
    /\ (r.old_value = 0 /\ r.new_value = 500) =>
           /\ r.absolute_variance = 500
           /\ r.percentage_variance = [num |-> 0, den |-> 1]

\* C1: every variance record, of calculate_variances and of the variance
\* endpoint, carries the two items' values for the period, with
\* absolute_variance = new_value - old_value and percentage_variance =
\* absolute_variance / old_value * 100, or exactly 0 when old_value is 0; every
\* matched pair has its record.
C1_VarianceFormula ==
    /\ variances # Pending =>
           /\ \A p \in PairSet(matches) :
                  \E i \in DOMAIN variances.records :
                      /\ variances.records[i].key = p[1]
                      /\ variances.records[i].rec.old_value =
                             ValueAt(GetItem(old_statement, p[1]), period)
                      /\ variances.records[i].rec.new_value =
                             ValueAt(GetItem(new_statement, p[2]), period)
           /\ \A i \in DOMAIN variances.records :
                  VarianceArithmetic(variances.records[i].rec)
    /\ summary # Pending =>
           \A i \in DOMAIN summary.variances :
               VarianceArithmetic(summary.variances[i].rec)

C1_Witness ==
    /\ variances # Pending
    /\ summary # Pending
    /\ \E i \in DOMAIN variances.records :
           /\ variances.records[i].rec.old_value = 1000000
           /\ variances.records[i].rec.new_value = 1150000
           /\ variances.records[i].rec.percentage_variance.num = 15
    /\ \E i \in DOMAIN summary.variances :
           /\ summary.variances[i].rec.old_value = 1000000
           /\ summary.variances[i].rec.new_value = 1150000
           /\ summary.variances[i].rec.absolute_variance = 150000

\* C2: in the pairs match_line_items returns, no old item and no new item
\* occurs in more than one pair.
C2_NoItemMatchedTwice ==
    (matches # Pending /\ matches.status = "returned") =>
        \A i, j \in DOMAIN matches.pairs :
            i # j => /\ matches.pairs[i][1] # matches.pairs[j][1]
                     /\ matches.pairs[i][2] # matches.pairs[j][2]

\* a fuzzy pair was formed while a later old item had the same best candidate
C2_Witness ==
    /\ matches # Pending
    /\ matches.status = "returned"
    /\ \E p \in PairSet(matches) :
           /\ p[1] # p[2]
           /\ \E o \in OldKeys :
                  /\ o # p[1]
                  /\ \A q \in PairSet(matches) : q[1] # o
                  /\ FuzzRatio(Lower(o.name), Lower(p[2].name))
                         >= similarity_threshold

PositionIn(x, s) == CHOOSE i \in DOMAIN s : s[i] = x

RemainingFor(o) ==
    NewKeys \ {p[2] : p \in
        {q \in PairSet(matches) :
            \/ q[1] = q[2]
            \/ PositionIn(q[1], Keys(old_statement))
                   < PositionIn(o, Keys(old_statement))}}

Score(o, n) == FuzzRatio(Lower(o.name), Lower(n.name))

NamePairs(result) ==
    {<<GetItem(old_statement, p[1]).name, GetItem(new_statement, p[2]).name>> :
        p \in PairSet(result)}

OldNames == {old_statement.line_items[i].name : i \in DOMAIN old_statement.line_items}
NewNames == {new_statement.line_items[i].name : i \in DOMAIN new_statement.line_items}

\* C5 as stated: match_line_items returns, and every label present in both
\* statements is paired with its identical counterpart.
C5_ExactLabelsPaired ==
    matches # Pending =>
        /\ matches.status = "returned"
        /\ \A l \in OldNames \cap NewNames : <<l, l>> \in NamePairs(matches)

\* C6 as stated: every old and every new line item outside the matched pairs
\* is named in what the caller gets back, from match_line_items and from the
\* variance endpoint.
MatcherReports(result) == {p[1] : p \in PairSet(result)} \cup {p[2] : p \in PairSet(result)}

SummaryReports(data) == {data.variances[i].rec.line_item_name : i \in DOMAIN data.variances}

C6_UnmatchedReported ==
    /\ (matches # Pending /\ matches.status = "returned") =>
           (OldKeys \cup NewKeys) \subseteq MatcherReports(matches)
    /\ summary # Pending => OldNames \subseteq SummaryReports(summary)

\* the position in new_statement of the item an old item is to be compared
\* with, 0 for none: the one under the old item's key, else the first of the
\* old item's name
PartnerOf(old_line_item) ==
    LET items == new_statement.line_items
        same_key == {j \in DOMAIN items : items[j].key = old_line_item.key}
        same_name == {j \in DOMAIN items : items[j].name = old_line_item.name}
    IN  IF same_key # {} THEN CHOOSE j \in same_key : TRUE
        ELSE IF same_name # {}
        THEN CHOOSE j \in same_name : \A k \in same_name : j <= k
        ELSE 0

\* the old items that have a partner and are the last of their name to have
\* one: statement_variances is keyed by name, so theirs is the record kept
Recorded ==
    {i \in DOMAIN old_statement.line_items :
        /\ PartnerOf(old_statement.line_items[i]) # 0
        /\ \A k \in DOMAIN old_statement.line_items :
               (k > i /\ old_statement.line_items[k].name
                             = old_statement.line_items[i].name)
                   => PartnerOf(old_statement.line_items[k]) = 0}

\* C24: in the variance endpoint an old line item is compared with the new
\* item stored under the same key whenever there is one, whatever the labels;
\* only otherwise with the first new item of verbatim the same label; otherwise
\* it yields no record.  A new item is not removed once used.
C24_RowKeyBeforeLabel ==
    (/\ summary # Pending
     /\ PeriodFound(period, old_statement.periods) # <<>>
     /\ PeriodFound(period, new_statement.periods) # <<>>) =>
        /\ \A i \in Recorded :
               LET old_line_item == old_statement.line_items[i]
                   new_line_item ==
                       new_statement.line_items[PartnerOf(old_line_item)]
               IN  \E n \in DOMAIN summary.variances :
                       /\ summary.variances[n].key = old_line_item.name
                       /\ summary.variances[n].rec.row_index
                              = old_line_item.row_number
                       /\ summary.variances[n].rec.old_value
                              = ValueAt(old_line_item,
                                    PeriodFound(period, old_statement.periods))
                       /\ summary.variances[n].rec.new_value
                              = ValueAt(new_line_item,
                                    PeriodFound(period, new_statement.periods))
        /\ \A n \in DOMAIN summary.variances :
               \E i \in Recorded :
                   old_statement.line_items[i].name = summary.variances[n].key

\* two old items are compared with one new item: the first by its label, the
\* second, of another label, by its row key
C24_Witness ==
    /\ summary # Pending
    /\ Len(summary.variances) = 2
    /\ \E i, k \in DOMAIN old_statement.line_items :
           /\ i < k
           /\ PartnerOf(old_statement.line_items[i]) # 0
           /\ PartnerOf(old_statement.line_items[i])
                  = PartnerOf(old_statement.line_items[k])
           /\ old_statement.line_items[i].key.kind = "row"
           /\ old_statement.line_items[k].name
                  # new_statement.line_items[
                        PartnerOf(old_statement.line_items[k])].name

\* "if not old_period_found: for p in old_periods: if period in p or p in
\* period": the period was picked by the containment fallback
ByFallback(p, periods) == ~InSeq(p, periods) /\ FirstSimilar(p, periods) # <<>>

\* the same statement with the period read by the variance loop named exactly
\* as the request names it: the request aligns with it by exact match
ExactlyNamed(statement, p) ==
    LET used == PeriodFound(p, statement.periods)
        renamed(q) == IF q = used THEN p ELSE q
    IN  [periods |-> [i \in DOMAIN statement.periods |->
                         renamed(statement.periods[i])],
         line_items |->
             [i \in DOMAIN statement.line_items |->
                 [statement.line_items[i] EXCEPT !.values =
                     [q \in {renamed(k) : k \in DOMAIN @} |->
                         IF q = p /\ used \in DOMAIN @ THEN @[used] ELSE @[q]]]]]

\* C13 as stated: when the old-side or the new-side period of a variance
\* computation is picked by the containment fallback, what the caller gets
\* back differs from what it gets back for the same statements aligned by
\* exact period name, so that the two kinds of alignment can be told apart.
C13_FallbackAlignmentFlagged ==
    (/\ summary # Pending
     /\ PeriodFound(period, old_statement.periods) # <<>>
     /\ PeriodFound(period, new_statement.periods) # <<>>
     /\ \/ ByFallback(period, old_statement.periods)
        \/ ByFallback(period, new_statement.periods))
        => summary # VarianceData(ExactlyNamed(old_statement, period),
                                  ExactlyNamed(new_statement, period), period)

----------------------------------------------------------------------------
(* UniversalExcelParser.parse_financial_statements                         *)
(* A sheet of the workbook is [exists, scannable, header_row, periods,     *)
(* period_columns, line_items]: whether the workbook has it, whether the   *)
(* period scan of _detect_periods gets through it without raising, the row *)
(* find_period_header_row finds (0: none in the first 10 rows), and what   *)
(* period detection and line-item extraction read from it.                 *)

default_start_row == 6

\* the start row _extract_line_items uses: below the header row, or row 6
\* when find_period_header_row raises
StartRow(sheet) ==
    IF sheet.header_row # 0 THEN sheet.header_row + 1 ELSE default_start_row

\* _parse_sheet: raises when the period scan raises, else the statement
ParseSheet(sheet_name, sheet) ==
    IF ~sheet.scannable
    THEN [raised |-> TRUE, statement |-> None]
    ELSE [raised |-> FALSE,
          statement |-> [sheet_name |-> sheet_name,
                         start_row |-> StartRow(sheet),
                         periods |-> sheet.periods,
                         period_columns |-> sheet.period_columns,
                         line_items |-> sheet.line_items]]

\* "Validate all requested sheets exist before parsing any"
SheetsMissing(wb, selected) ==
    SelectSeq(selected, LAMBDA e : ~wb[e.sheet_name].exists)

\* ParseEach without the per-sheet try/except: the first failure ends the loop
RECURSIVE ParseEach_StopsAtFailure(_, _, _)
ParseEach_StopsAtFailure(wb, todo, acc) ==
    IF todo = <<>> THEN acc
    ELSE LET e == Head(todo)
             parsed == ParseSheet(e.sheet_name, wb[e.sheet_name])
         IN  IF parsed.raised
             THEN [acc EXCEPT !.parsing_errors =
                      Append(@, [statement_type |-> e.statement_type,
                                 sheet_name |-> e.sheet_name])]
             ELSE ParseEach_StopsAtFailure(wb, Tail(todo),
                      [acc EXCEPT !.statements =
                          DictPut(@, e.statement_type, parsed.statement)])

\* the loop "Parse each sheet with individual error handling":
\* acc is [statements, parsing_errors]
RECURSIVE ParseEach(_, _, _)
ParseEach(wb, todo, acc) ==
    IF todo = <<>> THEN acc
    ELSE LET e == Head(todo)
             parsed == ParseSheet(e.sheet_name, wb[e.sheet_name])
         IN  IF parsed.raised
             THEN ParseEach(wb, Tail(todo),
                      [acc EXCEPT !.parsing_errors =
                          Append(@, [statement_type |-> e.statement_type,
                                     sheet_name |-> e.sheet_name])])
             ELSE ParseEach(wb, Tail(todo),
                      [acc EXCEPT !.statements =
                          DictPut(@, e.statement_type, parsed.statement)])

\* the call: [status, statements, named, parsing_errors].  status is
\* "returned" or the exception type that escapes; statements is the returned
\* dict; named lists the sheets the exception message names; parsing_errors is
\* the list the call only logs
Raise(type, named, errors) ==
    [status |-> type, statements |-> <<>>, named |-> named,
     parsing_errors |-> errors]

parse_financial_statements(fs, wb, selected) ==
    IF fs = "missing" THEN Raise("FileNotFoundError", <<>>, <<>>)
    ELSE IF selected = <<>> THEN Raise("ValueError", <<>>, <<>>)
    ELSE IF fs = "locked" THEN Raise("PermissionError", <<>>, <<>>)
    ELSE IF fs = "corrupt" THEN Raise("ValueError", <<>>, <<>>)
    ELSE IF SheetsMissing(wb, selected) # <<>>
    THEN Raise("ValueError", SheetsMissing(wb, selected), <<>>)
    ELSE LET done == ParseEach(wb, selected,
                         [statements |-> <<>>, parsing_errors |-> <<>>])
         IN  IF done.statements = <<>>
             THEN Raise("RuntimeError", done.parsing_errors,
                        done.parsing_errors)
             ELSE [status |-> "returned", statements |-> done.statements,
                   named |-> <<>>, parsing_errors |-> done.parsing_errors]

----------------------------------------------------------------------------
(* Inputs of a parse call *)

SheetNames == 1..NumSheets

StatementTypes == <<"income_statement", "balance_sheet", "cash_flow",
                    "target", "other">>

EmptySheet(exists, scannable, header_row) ==
    [exists |-> exists, scannable |-> scannable, header_row |-> header_row,
     periods |-> <<>>, period_columns |-> <<>>, line_items |-> <<>>]

SheetKinds ==
    {EmptySheet(FALSE, FALSE, 0)} \cup
        {EmptySheet(TRUE, sc, h) : sc \in BOOLEAN, h \in {0, 1}}

PlainWorkbook == [n \in SheetNames |-> EmptySheet(TRUE, TRUE, 1)]

\* dict order, keys distinct: the first n statement types, each with a sheet
Requests ==
    UNION {
        {[i \in 1..n |-> [statement_type |-> StatementTypes[i],
                          sheet_name |-> pick[i]]] :
            pick \in [1..n -> SheetNames]} :
        n \in 0..MaxRequested}

ParseInit ==
    /\ file_state \in {"ok", "missing", "locked", "corrupt"}
    /\ workbook \in [SheetNames -> SheetKinds]
    /\ file_state # "ok" => workbook = PlainWorkbook
    /\ selected_sheets \in Requests
    /\ parse_result = Pending
    /\ parsing_errors = <<>>

ParseIdle ==
    /\ file_state = "ok"
    /\ workbook = PlainWorkbook
    /\ selected_sheets = <<>>
    /\ parse_result = Pending
    /\ parsing_errors = <<>>

MatchIdle ==
    /\ old_statement = Statement(<<>>, <<>>)
    /\ new_statement = Statement(<<>>, <<>>)
    /\ period = DefaultPeriod
    /\ matches = Pending
    /\ swapped_matches = Pending
    /\ variances = Pending
    /\ summary = Pending

\* parser.parse_financial_statements(file_path, selected_sheets)
ParseFinancialStatements ==
    /\ parse_result = Pending
    /\ LET r == parse_financial_statements(file_state, workbook,
                                           selected_sheets)
       IN  /\ parse_result' = [status |-> r.status,
                               statements |-> r.statements,
                               named |-> r.named]
           /\ parsing_errors' = r.parsing_errors
    /\ UNCHANGED <<file_state, workbook, selected_sheets, parseOthers>>


----------------------------------------------------------------------------
(* Properties of parse_financial_statements *)

Requested == Range(selected_sheets)

SheetOf(e) == workbook[e.sheet_name]

ReturnedTypes == {parse_result.statements[i].key : i \in DOMAIN parse_result.statements}

ReturnedFor(e) ==
    parse_result.statements[
        CHOOSE i \in DOMAIN parse_result.statements :
            parse_result.statements[i].key = e.statement_type].rec

\* a call that got as far as looking at the requested sheets
SheetsLookedAt ==
    /\ parse_result # Pending
    /\ file_state = "ok"
    /\ selected_sheets # <<>>

\* a sheet-level failure in the claim's sense
SheetFails(e) ==
    \/ ~SheetOf(e).exists
    \/ ~SheetOf(e).scannable
    \/ SheetOf(e).header_row = 0

ReportedFailures(result) ==
    {result.statements[i].key :
        i \in {j \in DOMAIN result.statements :
                  "error" \in DOMAIN result.statements[j].rec}}
        \cup {result.named[i].statement_type : i \in DOMAIN result.named}

\* C8 as stated: when the parse of some requested sheets succeeds and that of
\* others raises, the call returns, and what it returns names every failed
\* sheet.
C8_PartialFailuresReported ==
    (/\ SheetsLookedAt
     /\ \A e \in Requested : SheetOf(e).exists
     /\ \E e \in Requested : SheetOf(e).scannable
     /\ \E e \in Requested : ~SheetOf(e).scannable) =>
        /\ parse_result.status = "returned"
        /\ \A e \in Requested :
               ~SheetOf(e).scannable =>
                   e.statement_type \in ReportedFailures(parse_result)

----------------------------------------------------------------------------
(* Drill-down                                                              *)
(* An Excel file is [file_state, workbook, cells, tree]: cells maps a cell *)
(* address to [refs, op, value] (refs empty: a literal; value: the cached  *)
(* value), tree tells how the dependency-tree build on the file ends.      *)

Letters == <<"A", "B", "C", "D", "E", "F", "G", "H", "I", "J", "K", "L", "M",
             "N", "O", "P", "Q", "R", "S", "T", "U", "V", "W", "X", "Y", "Z">>

\* _number_to_column_letter
RECURSIVE NumberToColumnLetter(_, _)
NumberToColumnLetter(column_number, result) ==
    IF column_number > 0
    THEN NumberToColumnLetter((column_number - 1) \div 26,
             <<Letters[((column_number - 1) % 26) + 1]>> \o result)
    ELSE result

\* _get_column_from_period answering the label column for every period
GetColumnFromPeriod_LabelColumn(statement, p) == <<"A">>

\* _get_column_from_period
GetColumnFromPeriod(statement, p) ==
    IF p \in DOMAIN statement.period_columns
    THEN NumberToColumnLetter(statement.period_columns[p], <<>>)
    ELSE <<"A">>

\* f"{column}{row}"
CellAddress(column, row) == [column |-> column, row |-> row]

max_depth == 2

\* FormulaAnalyzer.build_dependency_tree: a cell without formula, a cell
\* reached with the depth budget used up and a reference that does not
\* resolve (value 0) are leaves; a formula cell gets one child per reference
RECURSIVE BuildTree(_, _, _)
BuildTree(cells, address, depth) ==
    IF address \notin DOMAIN cells
    THEN [cell_reference |-> address, value |-> 0, is_leaf |-> TRUE,
          depth |-> max_depth - depth, children |-> <<>>]
    ELSE IF cells[address].refs = <<>> \/ depth = 0
    THEN [cell_reference |-> address, value |-> cells[address].value,
          is_leaf |-> TRUE, depth |-> max_depth - depth, children |-> <<>>]
    ELSE [cell_reference |-> address, value |-> cells[address].value,
          is_leaf |-> FALSE, depth |-> max_depth - depth,
          children |-> [i \in DOMAIN cells[address].refs |->
                           BuildTree(cells, cells[address].refs[i], depth - 1)]]

\* the build on a file: a tree, None, or an exception
build_dependency_tree(file, address) ==
    IF file.tree = "raises" THEN [raised |-> TRUE, component |-> None]
    ELSE IF file.tree = "none" THEN [raised |-> FALSE, component |-> None]
    ELSE [raised |-> FALSE,
          component |-> BuildTree(file.cells, address, max_depth)]

Min2(a, b) == IF a <= b THEN a ELSE b

\* the leaf positions of the two trees, walked in parallel: a position is a
\* leaf where either tree has one; each yields the value delta
RECURSIVE LeafContributions(_, _)
LeafContributions(old_component, new_component) ==
    IF old_component.is_leaf \/ new_component.is_leaf
    THEN <<[cell_reference |-> new_component.cell_reference,
            value |-> new_component.value,
            variance_contribution |->
                new_component.value - old_component.value,
            is_leaf |-> TRUE]>>
    ELSE LET n == Min2(Len(old_component.children),
                       Len(new_component.children))
             Walk[i \in 0..n] ==
                 IF i = 0 THEN <<>>
                 ELSE Walk[i - 1] \o
                          LeafContributions(old_component.children[i],
                                            new_component.children[i])
         IN  Walk[n]

RECURSIVE SumContributions(_)
SumContributions(components) ==
    IF components = <<>> THEN 0
    ELSE Head(components).variance_contribution
             + SumContributions(Tail(components))

\* FormulaAnalyzer.calculate_variance_attribution
calculate_variance_attribution(old_component, new_component) ==
    LET components == LeafContributions(old_component, new_component)
        total_explained == SumContributions(components)
    IN  [source_item |-> new_component.cell_reference,
         source_value |-> new_component.value,
         total_explained |-> total_explained,
         unexplained_variance |->
             (new_component.value - old_component.value) - total_explained,
         components |-> components]

\* the body of drill_down_variance's try block: [status, value, roots]; status
\* is "returned" or the exception raised inside the block, roots the two cell
\* addresses handed to build_dependency_tree (none when it is not reached)
DrillDownBody(old, new, req) ==
    LET selected == <<[statement_type |-> "target",
                       sheet_name |-> req.sheet_name]>>
        old_statements == parse_financial_statements(old.file_state,
                                                     old.workbook, selected)
        new_statements == parse_financial_statements(new.file_state,
                                                     new.workbook, selected)
    IN
    IF old_statements.status # "returned"
    THEN [status |-> old_statements.status, value |-> None, roots |-> <<>>]
    ELSE IF new_statements.status # "returned"
    THEN [status |-> new_statements.status, value |-> None, roots |-> <<>>]
    ELSE
    LET old_stmt == old_statements.statements[1].rec
        new_stmt == new_statements.statements[1].rec
        old_item == GetItem(old_stmt, req.line_item_name)
        new_item == GetItem(new_stmt, req.line_item_name)
    IN
    IF old_item = None \/ new_item = None
    THEN [status |-> "returned", value |-> None, roots |-> <<>>]
    ELSE IF old_item.formula = "None" /\ new_item.formula = "None"
    THEN [status |-> "returned", value |-> None, roots |-> <<>>]
    ELSE
    LET source_row == old_item.row_number
        old_cell_address ==
            CellAddress(GetColumnFromPeriod(old_stmt, req.period), source_row)
        new_cell_address ==
            CellAddress(GetColumnFromPeriod(new_stmt, req.period), source_row)
        old_built == build_dependency_tree(old, old_cell_address)
        new_built == build_dependency_tree(new, new_cell_address)
        roots == <<old_cell_address, new_cell_address>>
    IN
    IF old_built.raised \/ new_built.raised
    THEN [status |-> "Exception", value |-> None, roots |-> roots]
    ELSE IF old_built.component = None \/ new_built.component = None
    THEN [status |-> "returned", value |-> None, roots |-> roots]
    ELSE [status |-> "returned",
          value |-> calculate_variance_attribution(old_built.component,
                                                   new_built.component),
          roots |-> roots]

\* drill_down_variance without its try/except
drill_down_variance_NoCatch(old, new, req) == DrillDownBody(old, new, req)

\* drill_down_variance: "except Exception" turns every exception into None
drill_down_variance(old, new, req) ==
    LET body == DrillDownBody(old, new, req)
    IN  IF body.status = "returned" THEN body
        ELSE [status |-> "returned", value |-> None, roots |-> body.roots]

----------------------------------------------------------------------------
(* Inputs of a drill-down call *)

\* the drilled line item is on the first sheet, in the row below the first
\* data row; rows 1 and 2 of column A hold the cells its formula refers to
DrillSheet == CHOOSE n \in SheetNames : \A m \in SheetNames : n <= m
DrillRow == FirstDataRow + 1

\* the columns the period of the drilled sheet can be in (A holds the labels)
PeriodColumns == 2..MaxColumn

DrillLabel == Prefix(LowerChars, MaxLabelLen)

DrillValues == {50, 100, 120} \cup (1..MaxValue)

A1 == CellAddress(<<"A">>, 1)
A2 == CellAddress(<<"A">>, 2)
Target(column) == CellAddress(NumberToColumnLetter(column, <<>>), DrillRow)

Literal(v) == [refs |-> <<>>, op |-> "None", value |-> v]

\* the cached value Excel stored for a formula over A1 and A2
Computed(op, a1, a2) == IF op = "+" THEN a1 + a2 ELSE a1 * a2

FormulaText(op) ==
    IF op = "+" THEN "=A1+A2" ELSE IF op = "*" THEN "=A1*A2" ELSE "None"

\* a file whose drilled sheet has one line item, in row DrillRow, holding in
\* the period column either op applied to A1 and A2 or, for op "None", a literal
DrillFile(column, fs, exists, scannable, op, a1, a2, tree) ==
    LET v == IF op = "None" THEN a1 ELSE Computed(op, a1, a2)
        sheet == [exists |-> exists, scannable |-> scannable, header_row |-> 1,
                  periods |-> <<DefaultPeriod>>,
                  period_columns |-> (DefaultPeriod :> column),
                  line_items |->
                      <<LineItem(RowKey(DrillRow), DrillLabel, DrillRow,
                                 (DefaultPeriod :> v), FormulaText(op))>>]
    IN  [file_state |-> fs,
         workbook |-> [n \in SheetNames |->
                          IF n = DrillSheet THEN sheet
                          ELSE EmptySheet(TRUE, TRUE, 1)],
         cells |-> (A1 :> Literal(a1)) @@ (A2 :> Literal(a2)) @@
                   (Target(column) :> IF op = "None" THEN Literal(v)
                              ELSE [refs |-> <<A1, A2>>, op |-> op,
                                    value |-> v]),
         tree |-> tree]

\* a period the drilled sheet of the other files does not have
OtherPeriod == <<"2", "5">>

\* the file of =A1+A2 whose sheet has OtherPeriod, not the default period, in
\* the column
OtherPeriodFile(column) ==
    LET file == DrillFile(column, "ok", TRUE, TRUE, "+", 100, 50, "ok")
    IN  [file EXCEPT
            !.workbook[DrillSheet].periods = <<OtherPeriod>>,
            !.workbook[DrillSheet].period_columns = (OtherPeriod :> column),
            !.workbook[DrillSheet].line_items =
                <<LineItem(RowKey(DrillRow), DrillLabel, DrillRow,
                           (OtherPeriod :> 150), "=A1+A2")>>]

DrillFiles(column) ==
    {OtherPeriodFile(column)} \cup
    {DrillFile(column, "ok", TRUE, TRUE, op, a1, a2, "ok") :
        op \in {"None", "+", "*"}, a1 \in DrillValues, a2 \in DrillValues}
    \cup {DrillFile(column, fs, TRUE, TRUE, "+", 100, 50, "ok") :
             fs \in {"missing", "locked", "corrupt"}}
    \cup {DrillFile(column, "ok", ex, FALSE, "+", 100, 50, "ok") : ex \in BOOLEAN}
    \cup {DrillFile(column, "ok", TRUE, TRUE, "+", 100, 50, tree) :
             tree \in {"none", "raises"}}

\* line_item_name is annotated str and is used as a dict key: a label, or the
\* row number the dict is keyed by
DrillRequests ==
    {[sheet_name |-> DrillSheet, line_item_name |-> name, period |-> p] :
        name \in {NameKey(DrillLabel), NameKey(Prefix(UpperChars, MaxLabelLen)),
                  RowKey(DrillRow), RowKey(DrillRow + 1)},
        p \in {DefaultPeriod, OtherPeriod}}

DrillInit ==
    /\ \E column \in PeriodColumns :
           /\ old_file \in DrillFiles(column)
           /\ new_file \in DrillFiles(column)
    /\ drill_request \in DrillRequests
    /\ drill_result = Pending

NoFile == [file_state |-> "missing"]

DrillIdle ==
    /\ old_file = NoFile
    /\ new_file = NoFile
    /\ drill_request = [sheet_name |-> DrillSheet]
    /\ drill_result = Pending

\* parser.drill_down_variance(old_file_path, new_file_path, sheet_name,
\*                            line_item_name, period)
DrillDownVariance ==
    /\ drill_result = Pending
    /\ drill_result' = drill_down_variance(old_file, new_file, drill_request)
    /\ UNCHANGED <<old_file, new_file, drill_request, drillOthers>>

----------------------------------------------------------------------------
(* Properties of drill-down *)

DrillSheetOf(file) == file.workbook[drill_request.sheet_name]

Parses(file) ==
    /\ file.file_state = "ok"
    /\ DrillSheetOf(file).exists
    /\ DrillSheetOf(file).scannable

\* the line items of the file's sheet the request designates: by label, or by
\* the key they are stored under
Designated(file) ==
    {it \in Range(DrillSheetOf(file).line_items) :
        \/ it.key = drill_request.line_item_name
        \/ /\ drill_request.line_item_name.kind = "name"
           /\ it.name = drill_request.line_item_name.name}

\* the line item is present, with a formula, in both versions, the requested
\* period is a column of both, and both files can be read
DrillDownApplies ==
    /\ Parses(old_file) /\ Parses(new_file)
    /\ old_file.tree = "ok" /\ new_file.tree = "ok"
    /\ \E it \in Designated(old_file) : it.formula # "None"
    /\ \E it \in Designated(new_file) : it.formula # "None"
    /\ drill_request.period \in DOMAIN DrillSheetOf(old_file).period_columns
    /\ drill_request.period \in DOMAIN DrillSheetOf(new_file).period_columns

LeafDeltas ==
    (new_file.cells[A1].value - old_file.cells[A1].value)
        + (new_file.cells[A2].value - old_file.cells[A2].value)

\* the cell of the drilled row in the file's column of the requested period
TargetCell(file) ==
    file.cells[Target(DrillSheetOf(file).period_columns[drill_request.period])]

TargetDelta == TargetCell(new_file).value - TargetCell(old_file).value

\* C9 as stated: drill-down of a line item present with a formula in both
\* versions returns a result whose total_explained is the sum of the leaf
\* value deltas and whose unexplained_variance is the target cell's delta
\* minus total_explained (=A1+A2 with A1 100 -> 120, A2 50: 20 and 0).
C9_DrillDownAttribution ==
    (drill_result # Pending /\ DrillDownApplies) =>
        /\ drill_result.value # None
        /\ drill_result.value.total_explained = LeafDeltas
        /\ drill_result.value.unexplained_variance = TargetDelta - LeafDeltas
        /\ (/\ TargetCell(old_file).op = "+"
            /\ TargetCell(new_file).op = "+"
            /\ old_file.cells[A1].value = 100 /\ old_file.cells[A2].value = 50
            /\ new_file.cells[A1].value = 120 /\ new_file.cells[A2].value = 50)
               => /\ drill_result.value.total_explained = 20
                  /\ drill_result.value.unexplained_variance = 0

\* C10: drill_down_variance never raises; it returns None when neither
\* version has a formula for the item, when the item is not found in both
\* versions, when a file or sheet cannot be parsed and when a dependency tree
\* cannot be built.
C10_DrillDownNeverRaises ==
    drill_result # Pending =>
        /\ drill_result.status = "returned"
        /\ (\/ ~Parses(old_file) \/ ~Parses(new_file)
            \/ old_file.tree # "ok" \/ new_file.tree # "ok"
            \/ \A it \in Range(DrillSheetOf(old_file).line_items) :
                   it.key # drill_request.line_item_name
            \/ \A it \in Range(DrillSheetOf(new_file).line_items) :
                   it.key # drill_request.line_item_name
            \/ \A it \in Range(DrillSheetOf(old_file).line_items)
                           \cup Range(DrillSheetOf(new_file).line_items) :
                   it.formula = "None")
               => drill_result.value = None

\* the item is found with a formula in both versions and the tree build of
\* the new file raises
C10_Witness ==
    /\ drill_result # Pending
    /\ Parses(old_file) /\ Parses(new_file)
    /\ drill_request.line_item_name = RowKey(DrillRow)
    /\ old_file.tree = "ok"
    /\ new_file.tree = "raises"
    /\ drill_result.value = None

----------------------------------------------------------------------------
\* the line item the call finds in the file's statement: line_items.get
FoundItem(file) ==
    CHOOSE it \in Range(DrillSheetOf(file).line_items) :
        it.key = drill_request.line_item_name

\* the call gets as far as the two dependency trees: both files parse, the
\* item is found in both versions and one of them has a formula for it
ReachesTrees ==
    /\ Parses(old_file) /\ Parses(new_file)
    /\ \E it \in Range(DrillSheetOf(old_file).line_items) :
           it.key = drill_request.line_item_name
    /\ \E it \in Range(DrillSheetOf(new_file).line_items) :
           it.key = drill_request.line_item_name
    /\ \/ FoundItem(old_file).formula # "None"
       \/ FoundItem(new_file).formula # "None"

\* the cell a tree of the file is to be rooted at: the old item's row, the
\* column of the requested period in the file's statement, column A without it
RootOf(file) ==
    LET period_columns == DrillSheetOf(file).period_columns
    IN  [column |-> IF drill_request.period \in DOMAIN period_columns
                    THEN <<Letters[period_columns[drill_request.period]]>>
                    ELSE <<"A">>,
         row |-> FoundItem(old_file).row_number]

\* C27: drill_down_variance roots the old and the new dependency tree at the
\* same row, the old item's row number; the column of each root is the column
\* of the requested period in that version's statement, and column A when that
\* statement has no such period, in which case the drill-down still proceeds
\* (the trees are built and, when both builds answer, a result is returned).
C27_TreeRoots ==
    drill_result # Pending =>
        /\ ReachesTrees <=> drill_result.roots # <<>>
        /\ ReachesTrees =>
               /\ drill_result.roots = <<RootOf(old_file), RootOf(new_file)>>
               /\ drill_result.roots[1].row = drill_result.roots[2].row
               /\ (old_file.tree = "ok" /\ new_file.tree = "ok")
                      => drill_result.value # None

\* a drill-down whose period is a column of the old statement only: the new
\* tree is rooted in column A, the old one is not, and a result is returned
C27_Witness ==
    /\ drill_result # Pending
    /\ drill_request.period \in DOMAIN DrillSheetOf(old_file).period_columns
    /\ drill_request.period \notin DOMAIN DrillSheetOf(new_file).period_columns
    /\ Len(drill_result.roots) = 2
    /\ drill_result.roots[1].column # <<"A">>
    /\ drill_result.roots[2].column = <<"A">>
    /\ drill_result.roots[1].row = DrillRow
    /\ drill_result.value # None

----------------------------------------------------------------------------

(* TemplateBasedPeriodParser: template synthesis and expansion.  A pattern   *)
(* is a sequence of characters and of the placeholders {YYYY} {YY} {Q} {WW}  *)
(* [E], each placeholder one element.                                        *)

Digits == <<"0", "1", "2", "3", "4", "5", "6", "7", "8", "9">>

IsDigit(c) == \E i \in 1..10 : Digits[i] = c

\* str(n) of a natural number
RECURSIVE Str(_)
Str(n) == IF n < 10 THEN <<Digits[n + 1]>>
          ELSE Str(n \div 10) \o <<Digits[(n % 10) + 1]>>

\* s[-k:]
LastChars(s, k) == IF Len(s) <= k THEN s ELSE SubSeq(s, Len(s) - k + 1, Len(s))

IsSpace(c) == c = " "

\* str.strip()
RECURSIVE Strip(_)
Strip(s) ==
    IF s = <<>> THEN s
    ELSE IF IsSpace(Head(s)) THEN Strip(Tail(s))
    ELSE IF IsSpace(s[Len(s)]) THEN Strip(SubSeq(s, 1, Len(s) - 1))
    ELSE s

\* one element of a regular expression against one character
Accepts(t, c) ==
    IF t = "\\d" THEN IsDigit(c)
    ELSE IF t = "[1-4]" THEN c \in {"1", "2", "3", "4"}
    ELSE IF t = "\\w" THEN IsDigit(c) \/ c = "_" \/ InSeq(c, LowerChars)
                                     \/ InSeq(c, UpperChars)
    ELSE t = c

\* the optional elements of the expressions and what each stands for
Optional(t) ==
    IF t = "E?" THEN "E"
    ELSE IF t = "e?" THEN "e"
    ELSE IF t = "\\d?" THEN "\\d"
    ELSE IF t = "\\s?" THEN " "
    ELSE "none"

\* re.match(r'^...$', s) for the expressions of _reverse_engineer_template
RECURSIVE ReMatch(_, _)
ReMatch(s, re) ==
    IF re = <<>> THEN s = <<>>
    ELSE IF Head(re) = ".*" THEN TRUE
    ELSE IF Optional(Head(re)) # "none"
    THEN \/ ReMatch(s, Tail(re))
         \/ /\ s # <<>>
            /\ Accepts(Optional(Head(re)), Head(s))
            /\ ReMatch(Tail(s), Tail(re))
    ELSE IF Head(re) = "\\s+"
    THEN /\ s # <<>>
         /\ IsSpace(Head(s))
         /\ (ReMatch(Tail(s), Tail(re)) \/ ReMatch(Tail(s), re))
    ELSE /\ s # <<>>
         /\ Accepts(Head(re), Head(s))
         /\ ReMatch(Tail(s), Tail(re))

PeriodTemplate(name, pattern, example, type) ==
    [name |-> name, pattern |-> pattern, example |-> example, type |-> type]

EndsWithE(s) == s # <<>> /\ s[Len(s)] = "E"

\* _reverse_engineer_template(period): the template, or None
ReverseEngineerTemplate(p) ==
    LET s == Strip(p)
        OptE(pattern) == IF EndsWithE(s) THEN pattern \o <<"[E]">> ELSE pattern
    IN
    IF ReMatch(s, <<"F", "Y", "\\d", "\\d", "\\d", "\\d", "E?">>)
    THEN PeriodTemplate("Annual FY Format",
                        OptE(<<"F", "Y", "{YYYY}">>), s, "annual")
    ELSE IF ReMatch(s, <<"F", "Y", "[1-4]", "Q", "\\d", "\\d", "E?">>)
    THEN PeriodTemplate("Quarterly FY Format",
                        OptE(<<"F", "Y", "{Q}", "Q", "{YY}">>), s, "quarterly")
    ELSE IF ReMatch(s, <<"\\d", "\\d", "\\d", "\\d", "E?">>)
    THEN PeriodTemplate("Simple Annual Format",
                        OptE(<<"{YYYY}">>), s, "annual")
    ELSE IF ReMatch(s, <<"[1-4]", "Q", "\\d", "\\d", "E?">>)
    THEN PeriodTemplate("Simple Quarterly Format",
                        OptE(<<"{Q}", "Q", "{YY}">>), s, "quarterly")
    ELSE IF ReMatch(s, <<"Q", "[1-4]", "\\s+", "\\d", "\\d", "\\d", "\\d">>)
    THEN PeriodTemplate("Quarterly Q Format",
                        <<"Q", "{Q}", " ", "{YYYY}">>, s, "quarterly")
    ELSE IF ReMatch(s, <<"\\d", "\\d", "\\d", "\\d", "-", "\\d", "\\d">>)
    THEN PeriodTemplate("Year-Week Format",
                        <<"{YYYY}", "-", "{WW}">>, s, "annual")
    ELSE None

\* suggest_templates_from_samples: the distinct templates, in sample order
RECURSIVE SuggestTemplates(_, _)
SuggestTemplates(samples, suggested) ==
    IF samples = <<>> THEN suggested
    ELSE LET template == ReverseEngineerTemplate(Head(samples)) IN
         SuggestTemplates(Tail(samples),
             IF template # None /\ ~InSeq(template, suggested)
             THEN Append(suggested, template) ELSE suggested)

\* pattern.replace(placeholder, text)
RECURSIVE Replace(_, _, _)
Replace(pattern, placeholder, text) ==
    IF pattern = <<>> THEN <<>>
    ELSE (IF Head(pattern) = placeholder THEN text ELSE <<Head(pattern)>>)
             \o Replace(Tail(pattern), placeholder, text)

\* _expand_optional_suffixes; no template carries [Actual]
ExpandOptionalSuffixes(pattern) ==
    IF InSeq("[E]", pattern)
    THEN LET base == Replace(pattern, "[E]", <<>>) IN <<base, base \o <<"E">>>>
    ELSE <<pattern>>

\* the loop over quarter in [1, 2, 3, 4]
RECURSIVE ExpandQuarters(_, _)
ExpandQuarters(base_pattern, quarter) ==
    IF quarter > 4 THEN <<>>
    ELSE ExpandOptionalSuffixes(Replace(base_pattern, "{Q}", Str(quarter)))
             \o ExpandQuarters(base_pattern, quarter + 1)

\* _expand_template_for_year(pattern, year, year_digits)
ExpandTemplateForYear(pattern, year, year_digits) ==
    LET year_str == IF year_digits = 4 THEN Str(year) ELSE LastChars(Str(year), 2)
        base_pattern == Replace(Replace(pattern, "{YYYY}", Str(year)),
                                "{YY}", year_str)
        periods == IF InSeq("{Q}", base_pattern)
                   THEN ExpandQuarters(base_pattern, 1)
                   ELSE ExpandOptionalSuffixes(base_pattern)
    IN  IF InSeq("{WW}", base_pattern)
        THEN <<Replace(base_pattern, "{WW}", <<"5", "3">>)>>
        ELSE periods

\* the loop over year in range(start_year, end_year + 1)
RECURSIVE ExpandYears(_, _, _, _)
ExpandYears(pattern, year, end_year, year_digits) ==
    IF year > end_year THEN <<>>
    ELSE ExpandTemplateForYear(pattern, year, year_digits)
             \o ExpandYears(pattern, year + 1, end_year, year_digits)

\* generate_periods_from_templates: template name -> generated periods
RECURSIVE GeneratePeriodsFromTemplates(_, _, _)
GeneratePeriodsFromTemplates(todo, range, acc) ==
    IF todo = <<>> THEN acc
    ELSE LET template == Head(todo)
             periods ==
                 IF InSeq("{YYYY}", template.pattern)
                 THEN ExpandYears(template.pattern, range[1], range[2], 4)
                 ELSE IF InSeq("{YY}", template.pattern)
                 THEN ExpandYears(template.pattern, range[1], range[2], 2)
                 ELSE <<>>
         IN  GeneratePeriodsFromTemplates(Tail(todo), range,
                                          DictPut(acc, template.name, periods))

default_start_year == 1990
default_end_year == 2030

----------------------------------------------------------------------------
(* Inputs of template synthesis *)

FY1Q25 == <<"F", "Y", "1", "Q", "2", "5">>

SamplePool ==
    {FY1Q25, FY1Q25 \o <<"E">>, <<"F", "Y", "3", "Q", "2", "4">>,
     <<"F", "Y", "2", "0", "2", "4">>, <<"F", "Y", "2", "0", "2", "4", "E">>,
     <<"2", "0", "2", "5">>, <<"2", "0", "2", "5", "E">>,
     <<"1", "Q", "2", "5">>, <<"3", "Q", "2", "5", "E">>,
     <<"Q", "1", " ", "2", "0", "2", "5">>,
     <<"1", "9", "9", "8", "-", "5", "3">>,
     <<" ", "F", "Y", "1", "Q", "2", "5", " ">>,
     <<"5", "Q", "2", "5">>, <<"T", "o", "t", "a", "l">>,
     <<"2", "0", "2", "4", "-", "1", "2">>, <<"1", "Q", "8", "9">>}

YearRanges ==
    {<<default_start_year, default_end_year>>}
    \cup {<<2025 - span, 2025>> : span \in 0..MaxYearSpan}

TemplateInit ==
    /\ sample_periods \in UNION {[1..n -> SamplePool] : n \in 1..MaxSamples}
    /\ year_range \in YearRanges
    /\ templates = Pending
    /\ generated = Pending

TemplateIdle ==
    /\ sample_periods = <<>>
    /\ year_range = <<default_start_year, default_end_year>>
    /\ templates = Pending
    /\ generated = Pending

\* template_parser.suggest_templates_from_samples(sample_periods)
SuggestTemplatesFromSamples ==
    /\ templates = Pending
    /\ templates' = [status |-> "returned",
                     value |-> SuggestTemplates(sample_periods, <<>>)]
    /\ UNCHANGED <<sample_periods, year_range, generated, templateOthers>>

\* template_parser.generate_periods_from_templates(templates, year_range)
GeneratePeriods ==
    /\ templates # Pending
    /\ generated = Pending
    /\ generated' = [status |-> "returned",
                     value |-> GeneratePeriodsFromTemplates(templates.value,
                                                            year_range, <<>>)]
    /\ UNCHANGED <<sample_periods, year_range, templates, templateOthers>>

----------------------------------------------------------------------------
(* Properties of template synthesis *)

\* every period some synthesized template expands to
Expanded == UNION {Range(g.rec) : g \in Range(generated.value)}

FYQuarters25 ==
    {<<"F", "Y", q, "Q", "2", "5">> : q \in {"1", "2", "3", "4"}}

\* C11 as stated: from the single observed period "FY1Q25" the synthesized
\* template, expanded over the default year range, includes FY1Q25, FY2Q25,
\* FY3Q25, FY4Q25 and the E-suffixed form of each.
C11_TemplateRoundTrip ==
    (/\ generated # Pending
     /\ sample_periods = <<FY1Q25>>
     /\ year_range = <<default_start_year, default_end_year>>)
        => \A p \in FYQuarters25 : p \in Expanded /\ (p \o <<"E">>) \in Expanded

\* C30 as stated: a period string _reverse_engineer_template accepts is among
\* the periods its template expands to over the default year range 1990-2030
\* (the string as the template keeps it in example, i.e. stripped).
C30_AcceptedPeriodRegenerated ==
    (/\ generated # Pending
     /\ Len(sample_periods) = 1
     /\ year_range = <<default_start_year, default_end_year>>
     /\ ReverseEngineerTemplate(sample_periods[1]) # None)
        => Strip(sample_periods[1]) \in Expanded

----------------------------------------------------------------------------
(* Period detection: _match_period_pattern.  The expressions are compiled    *)
(* with re.IGNORECASE: they are written in lower case and applied to the     *)
(* lower-cased text.  A range \d{2,4} is \d \d \d? \d?; an alternation or an  *)
(* optional group is one entry per alternative.                              *)

D4 == <<"\\d", "\\d", "\\d", "\\d">>
D24 == <<"\\d", "\\d", "\\d?", "\\d?">>

\* pattern.search(text): the expression matches from some position on,
\* whatever follows
Search(text, re) ==
    \E i \in 1..(Len(text) + 1) :
        ReMatch(SubSeq(text, i, Len(text)), re \o <<".*">>)

\* int(matched_text) for a run of digits
RECURSIVE Num(_)
Num(s) ==
    IF s = <<>> THEN 0
    ELSE 10 * Num(SubSeq(s, 1, Len(s) - 1))
             + (CHOOSE d \in 0..9 : Digits[d + 1] = s[Len(s)])

min_year == 1990
max_year == 2050

\* r'(\d{4})[E]?': the leftmost run of four digits is the match; matched
\* text of exactly four digits outside 1990..2050 is passed over
YearPatternMatches(text) ==
    LET starts == {i \in 1..(Len(text) - 3) :
                      \A k \in 0..3 : IsDigit(text[i + k])}
    IN  /\ starts # {}
        /\ LET i == CHOOSE x \in starts : \A y \in starts : x <= y
               year == Num(SubSeq(text, i, i + 3))
               has_e == i + 4 <= Len(text) /\ text[i + 4] = "e"
           IN  has_e \/ (year >= min_year /\ year <= max_year)

\* self.period_patterns, in order; "year" stands for r'(\d{4})[E]?'
period_patterns ==
    << <<"q", "\\d", "\\s?">> \o D4,
       <<"\\d", "q">> \o D24 \o <<"e?">>,
       <<"f", "y", "\\d", "q">> \o D24 \o <<"e?">>,
       <<"f", "y", "\\s?">> \o D4 \o <<"e?">>,
       <<"year">>,
       <<"\\w", "\\w", "\\w", "\\s?">> \o D4,
       <<"\\d", "\\d?", "/">> \o D4,
       <<"\\w", "\\w", "\\w", "-">> \o D24,
       <<"c", "y", "\\s?">> \o D4 \o <<"e?">>,
       D4 \o <<"\\s?", "a", "c", "t", "u", "a", "l">>,
       D4 \o <<"\\s?", "e", "s", "t", "i", "m", "a", "t", "e">>,
       D4 \o <<"\\s?", "f", "o", "r", "e", "c", "a", "s", "t">>,
       D4 \o <<"\\s?", "b", "u", "d", "g", "e", "t">>,
       <<"f", "y", "\\d", "q", "\\d", "\\d", "e?">>,
       <<"f", "y", "\\d", "q", "e?">>,
       D4 \o <<"-", "\\d", "\\d">> >>

PatternMatches(text, re) ==
    IF re = <<"year">> THEN YearPatternMatches(text) ELSE Search(text, re)

\* the texts _match_period_pattern refuses before trying the patterns
Refused(text) ==
    \/ ReMatch(text, <<"\\d", "\\d", "\\d", "-", "\\d", "\\d", "\\d", "-">> \o D4)
    \/ (Len(text) >= 10 /\ \A i \in DOMAIN text : IsDigit(text[i]))
    \/ \E word \in {<<"p", "h", "o", "n", "e">>, <<"t", "e", "l">>,
                    <<"f", "a", "x">>, <<"c", "o", "n", "t", "a", "c", "t">>} :
           IsSubstring(word, Lower(text))
    \/ /\ text # <<>> /\ Head(text) = "="
       /\ \E keyword \in {<<"F", "Y">>, <<"Q">>, <<"R", "I", "G", "H", "T">>,
                          <<"L", "E", "F", "T">>} : IsSubstring(keyword, text)

\* an Optional[str]: None, or a string
NoText == [is_none |-> TRUE, text |-> <<>>]
SomeText(text) == [is_none |-> FALSE, text |-> text]

\* _match_period_pattern(text): the stripped text when a pattern matches it,
\* else None
MatchPeriodPattern(text) ==
    IF Refused(text) THEN NoText
    ELSE IF \E n \in DOMAIN period_patterns :
                PatternMatches(Lower(text), period_patterns[n])
    THEN SomeText(Strip(text))
    ELSE NoText

----------------------------------------------------------------------------
(* Period detection over the cells of a sheet.  A cell is [kind, text,       *)
(* cached]: kind "none", "str", "int" or "formula"; text the string, str()   *)
(* of the number or the formula text; cached what the data_only workbook     *)
(* holds for a formula cell.  A scanned sheet is [rows, data_only_loads]:    *)
(* rows[r][c] for r in 1..max_row, c in 1..max_column.                       *)

Blank == [kind |-> "none", text |-> <<>>]

StrCell(text) == [kind |-> "str", text |-> text, cached |-> Blank]
IntCell(n) == [kind |-> "int", text |-> Str(n), cached |-> Blank]
NoneCell == [kind |-> "none", text |-> <<>>, cached |-> Blank]
FormulaCell(text, cached) == [kind |-> "formula", text |-> text, cached |-> cached]

max_row(sheet) == Len(sheet.rows)
max_column(sheet) == Len(sheet.rows[1])

\* cell.value in the workbook loaded with data_only=True
DataOnlyValue(cell) ==
    IF cell.kind = "formula" THEN cell.cached
    ELSE [kind |-> cell.kind, text |-> cell.text]

\* cell.value in the workbook loaded with data_only=False
FormulaValue(cell) ==
    IF cell.kind = "formula" THEN [kind |-> "str", text |-> cell.text]
    ELSE [kind |-> cell.kind, text |-> cell.text]

\* "if cell_value and isinstance(cell_value, str)"
IsText(value) == value.kind = "str" /\ value.text # <<>>

header_rows_scanned == 10

Scanned(sheet) == 1..Min2(header_rows_scanned, max_row(sheet))

\* the cells of the rows in row-major order, as <<row, column>>
RECURSIVE CellsFrom(_, _, _)
CellsFrom(sheet, row, column) ==
    IF row > Min2(header_rows_scanned, max_row(sheet)) THEN <<>>
    ELSE IF column > max_column(sheet) THEN CellsFrom(sheet, row + 1, 1)
    ELSE <<<<row, column>>>> \o CellsFrom(sheet, row, column + 1)

\* re.search(r'"FY(\d)Q"', cell_value).group(1), or None
QuotedQuarter(text) ==
    LET re == <<"\"", "F", "Y", "\\d", "Q", "\"">>
        at == {i \in 1..(Len(text) - 5) : ReMatch(SubSeq(text, i, i + 5), re)}
    IN  IF at = {} THEN NoText
        ELSE SomeText(<<text[(CHOOSE i \in at : \A j \in at : i <= j) + 3]>>)

\* _get_cell_display_value(sheet, cell, cell_value, data_only_sheet)
GetCellDisplayValue(cell, data_only_sheet) ==
    IF cell.kind # "formula" THEN cell.text
    ELSE IF data_only_sheet /\ cell.cached.kind # "none" THEN cell.cached.text
    ELSE IF /\ IsSubstring(<<"F", "Y">>, cell.text)
            /\ IsSubstring(<<"Q">>, cell.text)
            /\ IsSubstring(<<"R", "I", "G", "H", "T">>, cell.text)
            /\ ~QuotedQuarter(cell.text).is_none
    THEN <<"F", "Y">> \o QuotedQuarter(cell.text).text \o <<"Q", "2", "5">>
    ELSE cell.text

\* the text a pass reads off a cell, or NoText: the alternative pass reads the
\* cached value, the standard pass the display value with or without the
\* cached workbook
CellText(pass, cell) ==
    IF pass = "alternative"
    THEN IF IsText(DataOnlyValue(cell)) THEN SomeText(DataOnlyValue(cell).text)
         ELSE NoText
    ELSE IF IsText(FormulaValue(cell))
    THEN SomeText(GetCellDisplayValue(cell, pass = "standard_cached"))
    ELSE NoText

\* the scan loop shared by the passes
RECURSIVE ScanPeriods(_, _, _, _)
ScanPeriods(sheet, todo, pass, acc) ==
    IF todo = <<>> THEN acc
    ELSE LET col_num == Head(todo)[2]
             text == CellText(pass, sheet.rows[Head(todo)[1]][col_num])
             found == IF text.is_none THEN NoText
                      ELSE MatchPeriodPattern(Strip(text.text))
         IN  ScanPeriods(sheet, Tail(todo), pass,
                 IF found.text # <<>> /\ ~InSeq(found.text, acc.periods)
                 THEN [periods |-> Append(acc.periods, found.text),
                       columns |-> acc.columns @@ (found.text :> col_num)]
                 ELSE acc)

NoPeriods == [periods |-> <<>>, columns |-> <<>>]

\* _detect_periods_alternative
DetectPeriodsAlternative(sheet) ==
    IF ~sheet.data_only_loads THEN NoPeriods
    ELSE ScanPeriods(sheet, CellsFrom(sheet, 1, 1), "alternative", NoPeriods)

\* _detect_periods(sheet, data_only_sheet)
DetectPeriods(sheet, data_only_sheet) ==
    ScanPeriods(sheet, CellsFrom(sheet, 1, 1),
                IF data_only_sheet THEN "standard_cached" ELSE "standard",
                NoPeriods)

\* the merge loop without its "period not in merged_periods" test
RECURSIVE MergePeriods_Unchecked(_, _, _)
MergePeriods_Unchecked(merged, todo, columns) ==
    IF todo = <<>> THEN merged
    ELSE MergePeriods_Unchecked(
             [periods |-> Append(merged.periods, Head(todo)),
              columns |-> (Head(todo) :> columns[Head(todo)]) @@ merged.columns],
             Tail(todo), columns)

\* the merge loops: periods not seen yet are appended with their column
RECURSIVE MergePeriods(_, _, _)
MergePeriods(merged, todo, columns) ==
    IF todo = <<>> THEN merged
    ELSE LET p == Head(todo) IN
         MergePeriods(IF InSeq(p, merged.periods) THEN merged
                      ELSE [periods |-> Append(merged.periods, p),
                            columns |-> merged.columns @@ (p :> columns[p])],
                      Tail(todo), columns)

\* find_periods_using_templates: per template name the (period, column)
\* pairs found in the header rows, sorted by column
FindPeriodsUsingTemplates(sheet, found_templates) ==
    LET template_periods ==
            GeneratePeriodsFromTemplates(found_templates,
                <<default_start_year, default_end_year>>, <<>>)
        cells == CellsFrom(sheet, 1, 1)
        Hit(candidates, at) ==
            LET value == FormulaValue(sheet.rows[at[1]][at[2]]) IN
            IsText(value) /\ InSeq(Strip(value.text), candidates)
        Matches(candidates) ==
            {<<Strip(FormulaValue(sheet.rows[cells[k][1]][cells[k][2]]).text),
               cells[k][2]>> : k \in {i \in DOMAIN cells : Hit(candidates, cells[i])}}
    IN  [n \in DOMAIN template_periods |->
            [key |-> template_periods[n].key,
             rec |-> Matches(template_periods[n].rec)]]

\* the loop over list(set(matches)) sorted by column; pairs of one column
\* come in the set's iteration order, here one fixed order
RECURSIVE EnhanceWith(_, _)
EnhanceWith(enhanced, template_matches) ==
    IF template_matches = {} THEN enhanced
    ELSE LET m == CHOOSE x \in template_matches :
                      \A y \in template_matches : x[2] <= y[2]
         IN  EnhanceWith(IF InSeq(m[1], enhanced.periods) THEN enhanced
                         ELSE [periods |-> Append(enhanced.periods, m[1]),
                               columns |-> enhanced.columns @@ (m[1] :> m[2])],
                         template_matches \ {m})

\* the loop over found_by_template.items()
RECURSIVE EnhanceAll(_, _)
EnhanceAll(enhanced, found_by_template) ==
    IF found_by_template = <<>> THEN enhanced
    ELSE EnhanceAll(EnhanceWith(enhanced, Head(found_by_template).rec),
                    Tail(found_by_template))

\* list.sort(key=column), stable: insertion of p behind the last entry whose
\* column is not greater
RECURSIVE SortByColumn(_, _)
SortByColumn(periods, columns) ==
    IF periods = <<>> THEN <<>>
    ELSE LET sorted == SortByColumn(SubSeq(periods, 1, Len(periods) - 1), columns)
             p == periods[Len(periods)]
             before == {i \in DOMAIN sorted : columns[sorted[i]] <= columns[p]}
             k == IF before = {} THEN 0
                  ELSE CHOOSE i \in before : \A j \in before : j <= i
         IN  SubSeq(sorted, 1, k) \o <<p>> \o SubSeq(sorted, k + 1, Len(sorted))

alt_periods_enough == 50
merged_periods_enough == 70

\* _detect_periods_with_templates(sheet, file_path, user_templates=None):
\* [periods, columns]
DetectPeriodsWithTemplates(sheet) ==
    LET alt == DetectPeriodsAlternative(sheet)
        standard == DetectPeriods(sheet, sheet.data_only_loads)
        merged == MergePeriods(alt, standard.periods, standard.columns)
        suggested == SuggestTemplates(merged.periods, <<>>)
        enhanced == EnhanceAll(merged,
                               FindPeriodsUsingTemplates(sheet, suggested))
    IN  IF Len(alt.periods) >= alt_periods_enough THEN alt
        ELSE IF Len(merged.periods) < merged_periods_enough /\ suggested # <<>>
        THEN [periods |-> SortByColumn(enhanced.periods, enhanced.columns),
              columns |-> enhanced.columns]
        ELSE merged

----------------------------------------------------------------------------
(* excel_utils: find_period_header_row, looks_like_period_header *)

min_period_cells == 3

\* "if cell and isinstance(cell, (str, int, float))"
Truthy_Cell(value) ==
    \/ (value.kind = "str" /\ value.text # <<>>)
    \/ (value.kind = "int" /\ value.text # <<"0">>)
    \/ value.kind = "float"

period_indicators ==
    {<<"Q">>, <<"2", "0">>, <<"1", "9">>, <<"1", "Q">>, <<"2", "Q">>,
     <<"3", "Q">>, <<"4", "Q">>}

\* one cell of the row counts as period-like
PeriodLike(value) ==
    /\ Truthy_Cell(value)
    /\ \/ \E pattern \in period_indicators : IsSubstring(pattern, value.text)
       \/ /\ Len(value.text) = 4
          /\ \A i \in 1..4 : IsDigit(value.text[i])
          /\ SubSeq(value.text, 1, 2) \in {<<"1", "9">>, <<"2", "0">>}

\* looks_like_period_header(row_data)
LooksLikePeriodHeader(row_data) ==
    Cardinality({c \in 2..Len(row_data) : PeriodLike(row_data[c])})
        >= min_period_cells

RowData(sheet, row_idx) ==
    [c \in 1..max_column(sheet) |-> FormulaValue(sheet.rows[row_idx][c])]

\* find_period_header_row returning the last qualifying row
FindPeriodHeaderRow_LastMatch(sheet) ==
    LET rows == {r \in Scanned(sheet) : LooksLikePeriodHeader(RowData(sheet, r))}
    IN  IF rows = {} THEN [raised |-> "ValueError", row |-> 0]
        ELSE [raised |-> "no",
              row |-> CHOOSE r \in rows : \A q \in rows : q <= r]

\* find_period_header_row(sheet): the row, or ValueError
RECURSIVE FindFrom(_, _)
FindFrom(sheet, row_idx) ==
    IF row_idx > Min2(header_rows_scanned, max_row(sheet))
    THEN [raised |-> "ValueError", row |-> 0]
    ELSE IF LooksLikePeriodHeader(RowData(sheet, row_idx))
    THEN [raised |-> "no", row |-> row_idx]
    ELSE FindFrom(sheet, row_idx + 1)

FindPeriodHeaderRow(sheet) == FindFrom(sheet, 1)

----------------------------------------------------------------------------
(* Inputs of period detection: a sheet with one row drawn cell by cell and   *)
(* one more row, placed on two of the rows 1, 2 and 11; the rows between are *)
(* empty.                                                                    *)

\* a label column and the fewest period columns a header row needs
ScanColumns == min_period_cells + 1

P_1Q25 == <<"1", "Q", "2", "5">>
P_2Q25 == <<"2", "Q", "2", "5">>
P_3Q25E == <<"3", "Q", "2", "5", "E">>
P_Mar2024 == <<"M", "a", "r", " ", "2", "0", "2", "4">>
P_Sep2024 == <<"S", "e", "p", " ", "2", "0", "2", "4">>
P_Dec2023 == <<"D", "e", "c", " ", "2", "0", "2", "3">>
T_LineItem == <<"L", "i", "n", "e", " ", "I", "t", "e", "m">>
T_Total2024 == <<"T", "o", "t", "a", "l", " ", "2", "0", "2", "4">>
F_Quarter == <<"=", "\"", "F", "Y", "1", "Q", "\"", "&", "R", "I", "G", "H", "T", "(", "B", "1", ",", "2", ")">>
F_Ref == <<"=", "C", "1">>

CellPool == {NoneCell, StrCell(P_1Q25), StrCell(P_Mar2024), IntCell(2024)}

FirstColumnPool == {StrCell(T_LineItem), StrCell(T_Total2024)}

DrawnRows ==
    {<<first>> \o cells : first \in FirstColumnPool,
                          cells \in [1..(ScanColumns - 1) -> CellPool]}

EmptyRow == [c \in 1..ScanColumns |-> NoneCell]

\* a title row, a data row, a row of two periods, header rows
PlainRows ==
    {EmptyRow,
     [EmptyRow EXCEPT ![ScanColumns] = StrCell(P_Dec2023)],
     <<StrCell(T_Total2024), IntCell(120), IntCell(7), IntCell(2019)>>,
     <<StrCell(T_LineItem), StrCell(P_1Q25), StrCell(P_2Q25), NoneCell>>,
     <<StrCell(T_LineItem), StrCell(P_1Q25), StrCell(P_2Q25), StrCell(P_3Q25E)>>,
     <<StrCell(T_LineItem), StrCell(P_Mar2024), StrCell(P_Sep2024),
       StrCell(P_Dec2023)>>}

\* header rows holding formulas, with and without cached values
FormulaRows ==
    {<<NoneCell, FormulaCell(F_Quarter, Blank), StrCell(P_2Q25),
       FormulaCell(F_Ref, Blank)>>,
     <<NoneCell, StrCell(P_3Q25E),
       FormulaCell(F_Ref, [kind |-> "str", text |-> P_2Q25]),
       FormulaCell(F_Ref, [kind |-> "int", text |-> Str(2025)])>>}

\* the second row, and whether the data_only workbook loads
OtherRows ==
    {<<row, TRUE>> : row \in PlainRows \cup FormulaRows}
        \cup {<<row, FALSE>> : row \in FormulaRows}

\* the rows the two rows are on
ScanPositions ==
    {<<1, 2>>, <<2, 1>>, <<2, header_rows_scanned + 1>>,
     <<header_rows_scanned + 1, 1>>}

SheetOfRows(r1, row1, r2, row2, loads) ==
    [rows |-> [r \in 1..Max2(r1, r2) |->
                  IF r = r1 THEN row1 ELSE IF r = r2 THEN row2 ELSE EmptyRow],
     data_only_loads |-> loads]

ScanSheets ==
    {SheetOfRows(at[1], row1, at[2], other[1], other[2]) :
        at \in ScanPositions, row1 \in DrawnRows, other \in OtherRows}

ScanInit ==
    /\ scan_sheet \in ScanSheets
    /\ detected = Pending
    /\ period_header_row = Pending

ScanIdle ==
    /\ scan_sheet = [rows |-> <<EmptyRow>>, data_only_loads |-> TRUE]
    /\ detected = Pending
    /\ period_header_row = Pending

\* self._detect_periods_with_templates(sheet, file_path, user_templates)
DetectPeriodsOfSheet ==
    /\ detected = Pending
    /\ detected' = [status |-> "returned",
                    value |-> DetectPeriodsWithTemplates(scan_sheet)]
    /\ UNCHANGED <<scan_sheet, period_header_row, scanOthers>>

\* the opening of _extract_line_items, which _parse_sheet calls once it has
\* the periods: find_period_header_row(sheet) and the start row taken from it
FindHeaderRowOfSheet ==
    /\ detected # Pending
    /\ period_header_row = Pending
    /\ LET found == FindPeriodHeaderRow(scan_sheet) IN
       period_header_row' = [status |-> "returned",
                             value |-> found,
                             start_row |-> StartRow([header_row |-> found.row])]
    /\ UNCHANGED <<scan_sheet, detected, scanOthers>>

----------------------------------------------------------------------------
(* Properties of period detection *)

HasHeaderRow(sheet) == FindPeriodHeaderRow(sheet).raised = "no"

ColumnOf(k) == detected.value.columns[detected.value.periods[k]]

ExampleHeader ==
    <<StrCell(T_LineItem), StrCell(P_1Q25), StrCell(P_2Q25), StrCell(P_3Q25E)>>

\* C12 as stated: for a sheet with a valid header row the periods come back
\* in ascending column order, whichever pass contributed them; the header
\* "Line Item", 1Q25, 2Q25, 3Q25E yields 1Q25, 2Q25, 3Q25E with strictly
\* increasing columns.
C12_PeriodsInColumnOrder ==
    (detected # Pending /\ HasHeaderRow(scan_sheet)) =>
        /\ \A i, j \in DOMAIN detected.value.periods :
               i < j => ColumnOf(i) <= ColumnOf(j)
        /\ (\A r \in DOMAIN scan_sheet.rows :
                scan_sheet.rows[r] \in {ExampleHeader, EmptyRow})
               => /\ detected.value.periods = <<P_1Q25, P_2Q25, P_3Q25E>>
                  /\ \A i, j \in DOMAIN detected.value.periods :
                         i < j => ColumnOf(i) < ColumnOf(j)

\* C14 as stated: when no row among the first 10 qualifies as a period
\* header row, the sheet's parse ends in an error and line-item extraction
\* does not start from a defaulted row.
C14_NoHeaderRowIsAnError ==
    (period_header_row # Pending /\ ~HasHeaderRow(scan_sheet)) =>
        /\ period_header_row.value.raised # "no"
        /\ period_header_row.start_row # default_start_row

\* the period-like cells of a row outside column 1, as the sheet stores them
PeriodLikeCells(r) ==
    {c \in 2..Len(scan_sheet.rows[r]) :
        PeriodLike(FormulaValue(scan_sheet.rows[r][c]))}

Qualifies(r) == Cardinality(PeriodLikeCells(r)) >= min_period_cells

FirstRows == {r \in DOMAIN scan_sheet.rows : r <= header_rows_scanned}

\* C19: find_period_header_row returns the lowest-numbered row among the
\* first 10 with at least 3 period-like cells outside column 1: no
\* qualifying row is skipped, no row with fewer such cells is returned, and
\* it raises exactly when no such row exists.
C19_FirstQualifyingRow ==
    period_header_row # Pending =>
        LET found == period_header_row.value IN
        IF \E r \in FirstRows : Qualifies(r)
        THEN /\ found.raised = "no"
             /\ found.row \in FirstRows
             /\ Qualifies(found.row)
             /\ \A r \in FirstRows : r < found.row => ~Qualifies(r)
        ELSE found.raised = "ValueError"

\* row 2 is returned past a first row that holds period-like cells, too few
C19_Witness ==
    /\ period_header_row # Pending
    /\ period_header_row.value.raised = "no"
    /\ period_header_row.value.row = 2
    /\ PeriodLikeCells(1) # {}
    /\ ~Qualifies(1)

\* the passes that look at the cells of a sheet: the alternative pass when
\* the data_only workbook loads, the standard pass with or without it, and
\* the template search
PassesOver(sheet) ==
    IF sheet.data_only_loads THEN {"alternative", "standard_cached", "template"}
    ELSE {"standard", "template"}

\* the period name a pass reads off one cell, or <<>>
ReadOffCell(pass, cell) ==
    IF pass = "template"
    THEN IF IsText(FormulaValue(cell)) THEN Strip(FormulaValue(cell).text)
         ELSE <<>>
    ELSE IF CellText(pass, cell).is_none THEN <<>>
    ELSE MatchPeriodPattern(Strip(CellText(pass, cell).text)).text

\* the columns at which some pass reads period p in the scanned rows
FoundColumns(sheet, p) ==
    {c \in 1..max_column(sheet) :
        \E r \in Scanned(sheet), pass \in PassesOver(sheet) :
            ReadOffCell(pass, sheet.rows[r][c]) = p}

\* C21: the period list returned by period detection never contains the
\* same period name twice, and period_columns maps every returned period to
\* a column at which one of the passes found it.
C21_PeriodsDistinctWithFoundColumns ==
    detected # Pending =>
        LET periods == detected.value.periods
            period_columns == detected.value.columns
        IN  /\ \A i, j \in DOMAIN periods : i # j => periods[i] # periods[j]
            /\ \A i \in DOMAIN periods :
                   /\ periods[i] \in DOMAIN period_columns
                   /\ period_columns[periods[i]]
                          \in FoundColumns(scan_sheet, periods[i])

\* a period that stands in two columns of the sheet comes back once, next to
\* another period
C21_Witness ==
    /\ detected # Pending
    /\ Len(detected.value.periods) >= 2
    /\ \E i \in DOMAIN detected.value.periods :
           Cardinality(FoundColumns(scan_sheet, detected.value.periods[i])) >= 2

----------------------------------------------------------------------------
(* _extract_line_items over the rows below the period header row.  Numbers  *)
(* are held in thousandths, so that the epsilon 0.001 is the number 1.      *)

\* str() of a number given in thousandths: 5000 is 5, 2 is 0.002
NumberText(m) ==
    LET whole == Str(Abs(m) \div 1000)
        part == Abs(m) % 1000
        digits == <<Digits[(part \div 100) + 1], Digits[((part \div 10) % 10) + 1],
                    Digits[(part % 10) + 1]>>
        kept == CHOOSE k \in 1..3 :
                    /\ digits[k] # "0" \/ k = 1
                    /\ \A j \in (k + 1)..3 : digits[j] = "0"
    IN  (IF m < 0 THEN <<"-">> ELSE <<>>) \o whole \o
        (IF part = 0 THEN <<>> ELSE <<".">> \o SubSeq(digits, 1, kept))

\* a cell holding a literal number
NumberCell(m) ==
    [kind |-> IF m % 1000 = 0 THEN "int" ELSE "float", text |-> NumberText(m),
     cached |-> Blank, number |-> m]

\* the cached value of a formula cell when it is a number
CachedNumber(m) ==
    [kind |-> IF m % 1000 = 0 THEN "int" ELSE "float", text |-> NumberText(m),
     number |-> m]

\* "isinstance(value, (int, float))"
IsNumber(value) == value.kind \in {"int", "float"}

label_columns == 5

\* the label loop over range(1, min(6, sheet.max_column + 1)): the first
\* string with a non-empty strip() that is no period, stripped; or None
RECURSIVE LineItemName(_, _, _)
LineItemName(sheet, row_num, col_num) ==
    IF col_num > Min2(label_columns, max_column(sheet)) THEN NoText
    ELSE LET cell_value == FormulaValue(sheet.rows[row_num][col_num]) IN
         IF /\ IsText(cell_value)
            /\ Strip(cell_value.text) # <<>>
            /\ MatchPeriodPattern(cell_value.text).is_none
         THEN SomeText(Strip(cell_value.text))
         ELSE LineItemName(sheet, row_num, col_num + 1)

NoValues == [values |-> <<>>, formulas |-> <<>>]

\* the loop "for period in periods" of one row: [values, formulas]; a formula
\* cell gives its text and, when the data_only workbook loads, its cached
\* number, 0.0 when it does not load; a literal number gives itself
RECURSIVE RowValues(_, _, _, _, _)
RowValues(sheet, row_num, periods, period_columns, acc) ==
    IF periods = <<>> THEN acc
    ELSE LET p == Head(periods)
             cell == sheet.rows[row_num][period_columns[p]]
         IN  RowValues(sheet, row_num, Tail(periods), period_columns,
                 IF cell.kind = "formula"
                 THEN [values |->
                           IF ~sheet.data_only_loads
                           THEN (p :> 0) @@ acc.values
                           ELSE IF IsNumber(cell.cached)
                           THEN (p :> cell.cached.number) @@ acc.values
                           ELSE acc.values,
                       formulas |-> DictPut(acc.formulas, p, cell.text)]
                 ELSE IF IsNumber(cell)
                 THEN [values |-> (p :> cell.number) @@ acc.values,
                       formulas |-> acc.formulas]
                 ELSE acc)

epsilon == 1

\* has_meaningful_data without its "or bool(formulas)"
HasMeaningfulData_ValuesOnly(row) ==
    \E p \in DOMAIN row.values : Abs(row.values[p]) > epsilon

\* "(values and any(abs(v) > 0.001 for v in values.values())) or bool(formulas)"
HasMeaningfulData(row) ==
    \/ \E p \in DOMAIN row.values : Abs(row.values[p]) > epsilon
    \/ row.formulas # <<>>

\* the loop "for row_num in range(start_row, sheet.max_row + 1)"
RECURSIVE ExtractRows(_, _, _, _, _)
ExtractRows(sheet, row_num, periods, period_columns, line_items_so_far) ==
    IF row_num > max_row(sheet) THEN line_items_so_far
    ELSE LET line_item_name == LineItemName(sheet, row_num, 1)
             row == RowValues(sheet, row_num, periods, period_columns, NoValues)
             main_formula == IF row.formulas = <<>> THEN NoText
                             ELSE SomeText(row.formulas[1].rec)
         IN  ExtractRows(sheet, row_num + 1, periods, period_columns,
                 IF ~line_item_name.is_none /\ HasMeaningfulData(row)
                 THEN Append(line_items_so_far,
                             LineItem(RowKey(row_num), line_item_name.text,
                                      row_num, row.values, main_formula))
                 ELSE line_items_so_far)

\* _extract_line_items(sheet, periods, period_columns)
ExtractLineItems(sheet, periods, period_columns) ==
    ExtractRows(sheet,
                StartRow([header_row |-> FindPeriodHeaderRow(sheet).row]),
                periods, period_columns, <<>>)

----------------------------------------------------------------------------
(* Inputs of line-item extraction: a header row on row 1, one data row whose *)
(* first three cells are drawn, on row 2 or on row 7, the other rows empty.  *)

T_Revenue == <<"R", "e", "v", "e", "n", "u", "e">>

ExtractHeaders ==
    {ExampleHeader,
     <<StrCell(T_LineItem), StrCell(P_1Q25), StrCell(P_2Q25), NoneCell>>}

\* no text, a label, a label to strip, blanks, a period
ExtractLabelPool ==
    {NoneCell, StrCell(T_Revenue), StrCell(<<" ">> \o T_Revenue),
     StrCell(<<" ", " ">>), StrCell(P_2Q25)}

\* nothing, 0, 0.001, 0.002, -5, a label, formulas without a cached value,
\* with a cached 0 and with a cached 5
ExtractCellPool ==
    {NoneCell, NumberCell(0), NumberCell(1), NumberCell(2), NumberCell(-5000),
     StrCell(T_Revenue), FormulaCell(F_Ref, Blank),
     FormulaCell(F_Ref, CachedNumber(0)), FormulaCell(F_Ref, CachedNumber(5000))}

ExtractDataRows ==
    {<<label, second, third, NoneCell>> :
        label \in ExtractLabelPool, second \in ExtractCellPool,
        third \in {NoneCell, NumberCell(1), FormulaCell(F_Ref, CachedNumber(0))}}

ExtractSheets ==
    {SheetOfRows(1, header, at, row, loads) :
        header \in ExtractHeaders, at \in {2, default_start_row + 1},
        row \in ExtractDataRows, loads \in BOOLEAN}

ExtractInit ==
    /\ extract_sheet \in ExtractSheets
    /\ line_items = Pending

ExtractIdle ==
    /\ extract_sheet = [rows |-> <<EmptyRow>>, data_only_loads |-> TRUE]
    /\ line_items = Pending

\* _parse_sheet: the periods of the sheet, then its line items
ExtractLineItemsOfSheet ==
    /\ line_items = Pending
    /\ \E found \in {DetectPeriodsWithTemplates(extract_sheet)} :
       line_items' = [status |-> "returned",
                      periods |-> found.periods,
                      period_columns |-> found.columns,
                      value |-> ExtractLineItems(extract_sheet, found.periods,
                                                 found.columns)]
    /\ UNCHANGED <<extract_sheet, extractOthers>>

----------------------------------------------------------------------------

(* Properties of line-item extraction *)

ExtractedRows == {line_items.value[i].row_number : i \in DOMAIN line_items.value}

\* the row shows, in one of its first columns, a string that is not blank and
\* not a period
Labelled(r) ==
    \E c \in 1..Min2(label_columns, max_column(extract_sheet)) :
        LET shown == FormulaValue(extract_sheet.rows[r][c]) IN
        /\ shown.kind = "str"
        /\ Strip(shown.text) # <<>>
        /\ MatchPeriodPattern(shown.text).is_none

\* the cells of the row in the columns of the detected periods
PeriodCells(r) ==
    {extract_sheet.rows[r][line_items.period_columns[line_items.periods[k]]] :
        k \in DOMAIN line_items.periods}

HoldsFormula(r) == \E cell \in PeriodCells(r) : cell.kind = "formula"

\* a period value above the epsilon: a literal, or the cached value of a
\* formula
HoldsValue(r) ==
    \E cell \in PeriodCells(r) :
        \/ cell.kind \in {"int", "float"} /\ Abs(cell.number) > epsilon
        \/ /\ cell.kind = "formula"
           /\ extract_sheet.data_only_loads
           /\ cell.cached.kind \in {"int", "float"}
           /\ Abs(cell.cached.number) > epsilon

\* C22: every extracted line item has a non-empty label and either a period
\* value with absolute magnitude above 0.001 or a formula; a labelled row below
\* the header with such a value or a formula is kept; a labelled row with only
\* near-zero literals and no formula is discarded.
C22_MeaningfulRowsKept ==
    line_items # Pending =>
        LET header == FindPeriodHeaderRow(extract_sheet) IN
        /\ \A i \in DOMAIN line_items.value :
               LET item == line_items.value[i] IN
               /\ item.name # <<>>
               /\ \/ \E p \in DOMAIN item.values : Abs(item.values[p]) > epsilon
                  \/ ~item.formula.is_none
        /\ header.raised = "no" =>
               \A r \in (header.row + 1)..max_row(extract_sheet) :
                   (Labelled(r) /\ (HoldsValue(r) \/ HoldsFormula(r)))
                       => r \in ExtractedRows
        /\ \A r \in DOMAIN extract_sheet.rows :
               (Labelled(r) /\ ~HoldsValue(r) /\ ~HoldsFormula(r))
                   => r \notin ExtractedRows

\* a row is kept for its formula alone, the cached value being 0
C22_Witness ==
    /\ line_items # Pending
    /\ \E i \in DOMAIN line_items.value :
           LET item == line_items.value[i] IN
           /\ ~item.formula.is_none
           /\ DOMAIN item.values # {}
           /\ \A p \in DOMAIN item.values : item.values[p] = 0

----------------------------------------------------------------------------

(* _sort_periods_chronologically: sorted(periods, key=period_sort_key)       *)

\* the least element of a non-empty set of positions
Leftmost(at) == CHOOSE i \in at : \A j \in at : i <= j

DigitAt(text, i) == i \in DOMAIN text /\ IsDigit(text[i])

CharAt(text, i, c) == i \in DOMAIN text /\ text[i] = c

\* the start positions of r'(\d)Q(\d{2})E?'
QuarterYearAt(text) ==
    {i \in DOMAIN text : /\ DigitAt(text, i) /\ CharAt(text, i + 1, "Q")
                         /\ DigitAt(text, i + 2) /\ DigitAt(text, i + 3)}

\* where the digits of r'Q(\d)\s?(\d{2,4})' start for a match that starts
\* at i, 0 when there is none: behind the optional blank when one is there
YearDigitsFrom(text, i) ==
    IF ~(CharAt(text, i, "Q") /\ DigitAt(text, i + 1)) THEN 0
    ELSE IF CharAt(text, i + 2, " ") /\ DigitAt(text, i + 3) /\ DigitAt(text, i + 4)
    THEN i + 3
    ELSE IF DigitAt(text, i + 2) /\ DigitAt(text, i + 3) THEN i + 2
    ELSE 0

\* the digits \d{2,4} takes from position j on: as many as there are, up to 4
YearDigits(text, j) ==
    LET n == CHOOSE k \in 2..4 :
                 /\ \A d \in 0..(k - 1) : DigitAt(text, j + d)
                 /\ (k = 4 \/ ~DigitAt(text, j + k))
    IN  SubSeq(text, j, j + n - 1)

\* the start positions of r'(\d{4})'
FourDigitsAt(text) ==
    {i \in DOMAIN text : \A d \in 0..3 : DigitAt(text, i + d)}

\* the start positions of r'Q(\d)'
QuarterAt(text) ==
    {i \in DOMAIN text : CharAt(text, i, "Q") /\ DigitAt(text, i + 1)}

\* the start positions of r'(\d{1,2})/'
MonthAt(text) ==
    {i \in DOMAIN text :
        /\ DigitAt(text, i)
        /\ \/ CharAt(text, i + 1, "/")
           \/ DigitAt(text, i + 1) /\ CharAt(text, i + 2, "/")}

unrecognized_year == 9999

\* period_sort_key(period): <<year, quarter>>; int() of matched digits does
\* not raise, so the except branch with (9999, 99) is not taken for a string
PeriodSortKey(p) ==
    LET year == IF FourDigitsAt(p) = {} THEN unrecognized_year
                ELSE Num(SubSeq(p, Leftmost(FourDigitsAt(p)),
                                Leftmost(FourDigitsAt(p)) + 3))
        year_quarter == {i \in DOMAIN p : YearDigitsFrom(p, i) # 0}
    IN  IF QuarterYearAt(p) # {}
        THEN LET i == Leftmost(QuarterYearAt(p)) IN
             <<2000 + Num(SubSeq(p, i + 2, i + 3)), Num(<<p[i]>>)>>
        ELSE IF year_quarter # {}
        THEN LET i == Leftmost(year_quarter)
                 year_str == YearDigits(p, YearDigitsFrom(p, i))
             IN  <<IF Len(year_str) = 4 THEN Num(year_str)
                   ELSE 2000 + Num(year_str),
                   Num(<<p[i + 1]>>)>>
        ELSE IF QuarterAt(p) # {}
        THEN <<year, Num(<<p[Leftmost(QuarterAt(p)) + 1]>>)>>
        ELSE IF MonthAt(p) # {}
        THEN LET i == Leftmost(MonthAt(p)) IN
             <<year, IF CharAt(p, i + 1, "/") THEN Num(<<p[i]>>)
                     ELSE Num(SubSeq(p, i, i + 1))>>
        ELSE <<year, 0>>

\* tuple comparison
KeyLessEq(a, b) == a[1] < b[1] \/ (a[1] = b[1] /\ a[2] <= b[2])

\* sorted(periods, key=period_sort_key), stable: p goes behind the last entry
\* whose key is not greater
RECURSIVE SortPeriodsChronologically(_)
SortPeriodsChronologically(periods) ==
    IF periods = <<>> THEN <<>>
    ELSE LET sorted == SortPeriodsChronologically(
                           SubSeq(periods, 1, Len(periods) - 1))
             p == periods[Len(periods)]
             before == {i \in DOMAIN sorted :
                           KeyLessEq(PeriodSortKey(sorted[i]), PeriodSortKey(p))}
             k == IF before = {} THEN 0
                  ELSE CHOOSE i \in before : \A j \in before : j <= i
         IN  SubSeq(sorted, 1, k) \o <<p>> \o SubSeq(sorted, k + 1, Len(sorted))

----------------------------------------------------------------------------
(* Inputs of the chronological sort: lists of up to MaxSorted periods        *)

P_4Q25E == <<"4", "Q", "2", "5", "E">>
P_1Q25E == <<"1", "Q", "2", "5", "E">>
P_2025E == <<"2", "0", "2", "5", "E">>
P_FY2025 == <<"F", "Y", "2", "0", "2", "5">>
P_Q1_2024 == <<"Q", "1", " ", "2", "0", "2", "4">>
P_Q3 == <<"Q", "3">>
P_Budget == <<"B", "u", "d", "g", "e", "t">>
P_Actual == <<"A", "c", "t", "u", "a", "l">>

SortPool ==
    {P_4Q25E, P_1Q25E, P_2025E, P_FY2025, P_Q1_2024, P_Q3, P_Budget, P_Actual}

SortInputs == UNION {[1..n -> SortPool] : n \in 0..MaxSorted}

SortInit ==
    /\ unsorted_periods \in SortInputs
    /\ sorted_periods = Pending

SortIdle ==
    /\ unsorted_periods = <<>>
    /\ sorted_periods = Pending

\* parser._sort_periods_chronologically(periods)
SortPeriods ==
    /\ sorted_periods = Pending
    /\ sorted_periods' = [status |-> "returned",
                          value |-> SortPeriodsChronologically(unsorted_periods)]
    /\ UNCHANGED <<unsorted_periods, sortOthers>>

----------------------------------------------------------------------------
(* Properties of the chronological sort *)

\* some shape of period_sort_key is found in p: a year, a quarter or a month
Recognised(p) ==
    \/ QuarterYearAt(p) # {}
    \/ \E i \in DOMAIN p : YearDigitsFrom(p, i) # 0
    \/ FourDigitsAt(p) # {}
    \/ QuarterAt(p) # {}
    \/ MonthAt(p) # {}

Count(s, x) == Cardinality({i \in DOMAIN s : s[i] = x})

\* the entries of s whose key is key, in the order of s
RECURSIVE WithKey(_, _)
WithKey(s, key) ==
    IF s = <<>> THEN <<>>
    ELSE (IF PeriodSortKey(Head(s)) = key THEN <<Head(s)>> ELSE <<>>)
             \o WithKey(Tail(s), key)

\* C23 as stated: the chronological sort returns a permutation of its input
\* ordered by the extracted (year, quarter) key, places every period it cannot
\* parse after all periods it can parse, and keeps periods with equal keys in
\* their input order.
C23_ChronologicalSort ==
    sorted_periods # Pending =>
        LET out == sorted_periods.value IN
        /\ \A p \in SortPool : Count(out, p) = Count(unsorted_periods, p)
        /\ \A i, j \in DOMAIN out :
               i < j => KeyLessEq(PeriodSortKey(out[i]), PeriodSortKey(out[j]))
        /\ \A i, j \in DOMAIN out :
               (~Recognised(out[i]) /\ Recognised(out[j])) => j < i
        /\ \A p \in SortPool :
               WithKey(out, PeriodSortKey(p))
                   = WithKey(unsorted_periods, PeriodSortKey(p))

----------------------------------------------------------------------------

(* Workbook handles of a parse call on one selected sheet.  The call meets  *)
(* parse_env = [main_loads, sheet_exists, sheet_kind, alt_loads,            *)
(* alt_periods, std_loads, formula_cells, cached_file]: whether             *)
(* load_workbook succeeds for the main workbook and for the data_only       *)
(* workbooks of the two period passes, whether the selected name is a sheet *)
(* of the workbook and of which kind (a chartsheet has neither max_row nor  *)
(* max_column), how many periods the alternative pass finds, how many       *)
(* formula cells line-item extraction visits, and what lies at              *)
(* sheet.parent.path.  The log is the sequence of <<"open", h>> and         *)
(* <<"close", h>> events, h = [name, cell].                                 *)

Handle(name, cell) == [name |-> name, cell |-> cell]

Opens(h) == <<"open", h>>
Closes(h) == <<"close", h>>

\* _detect_periods_alternative: wb_data.close() is the last statement of the
\* try block; an exception after load_workbook goes to "except Exception"
\* and returns [], {}
DetectPeriodsAlternativeHandles(env) ==
    LET wb_data == Handle("alternative wb_data", 0) IN
    IF ~env.alt_loads THEN [events |-> <<>>, periods |-> 0]
    ELSE IF env.sheet_kind = "chartsheet"
    THEN [events |-> <<Opens(wb_data)>>, periods |-> 0]
    ELSE [events |-> <<Opens(wb_data), Closes(wb_data)>>,
          periods |-> env.alt_periods]

\* _detect_periods_with_templates: data_only_wb is closed after
\* self._detect_periods(sheet, data_only_sheet) has returned
DetectPeriodsWithTemplatesHandles(env) ==
    LET alt == DetectPeriodsAlternativeHandles(env)
        data_only_wb == Handle("data_only_wb", 0)
        loaded == IF env.std_loads THEN <<Opens(data_only_wb)>> ELSE <<>>
    IN  IF alt.periods >= alt_periods_enough
        THEN [events |-> alt.events, raised |-> FALSE]
        ELSE IF env.sheet_kind = "chartsheet"
        THEN [events |-> alt.events \o loaded, raised |-> TRUE]
        ELSE [events |-> alt.events \o loaded \o
                         (IF env.std_loads THEN <<Closes(data_only_wb)>>
                          ELSE <<>>),
              raised |-> FALSE]

\* _extract_line_items, the formula branch: load_workbook(sheet.parent.path,
\* data_only=True), wb_data[sheet.title].cell(...), wb_data.close(), all
\* under "except: values[period] = 0.0"
RECURSIVE FormulaCellHandles(_, _, _)
FormulaCellHandles(env, cell, acc) ==
    IF cell > env.formula_cells THEN acc
    ELSE LET wb_data == Handle("cell wb_data", cell) IN
         FormulaCellHandles(env, cell + 1,
             acc \o (CASE env.cached_file = "missing" -> <<>>
                       [] env.cached_file = "lacks_sheet" -> <<Opens(wb_data)>>
                       [] OTHER -> <<Opens(wb_data), Closes(wb_data)>>))

\* _parse_sheet
ParseSheetHandles(env) ==
    LET detection == DetectPeriodsWithTemplatesHandles(env) IN
    IF detection.raised THEN detection
    ELSE [events |-> FormulaCellHandles(env, 1, detection.events),
          raised |-> FALSE]

\* parse_financial_statements with one selected sheet: wb is closed in the
\* finally block when it was loaded
ParseHandles(env) ==
    LET wb == Handle("wb", 0) IN
    IF ~env.main_loads THEN [status |-> "raised", events |-> <<>>]
    ELSE IF ~env.sheet_exists
    THEN [status |-> "raised", events |-> <<Opens(wb), Closes(wb)>>]
    ELSE LET parsed == ParseSheetHandles(env) IN
         [status |-> IF parsed.raised THEN "raised" ELSE "returned",
          events |-> <<Opens(wb)>> \o parsed.events \o <<Closes(wb)>>]

----------------------------------------------------------------------------
(* Inputs of a parse call whose handles are followed *)

ParseEnvs ==
    {env \in [main_loads : BOOLEAN, sheet_exists : BOOLEAN,
              sheet_kind : {"worksheet", "chartsheet"},
              alt_loads : BOOLEAN, alt_periods : {0, alt_periods_enough},
              std_loads : BOOLEAN, formula_cells : 0..MaxFormulaCells,
              cached_file : {"missing", "has_sheet", "lacks_sheet"}] :
        env.sheet_kind = "chartsheet" =>
            env.alt_periods = 0 /\ env.formula_cells = 0}

HandleInit ==
    /\ parse_env \in ParseEnvs
    /\ handle_log = Pending

HandleIdle ==
    /\ parse_env = CHOOSE env \in ParseEnvs :
                       ~env.main_loads /\ ~env.sheet_exists /\ ~env.alt_loads
                           /\ ~env.std_loads /\ env.alt_periods = 0
                           /\ env.formula_cells = 0
                           /\ env.sheet_kind = "worksheet"
                           /\ env.cached_file = "missing"
    /\ handle_log = Pending

\* statements = parser.parse_financial_statements(file_path, selected_sheets)
ParseFollowingHandles ==
    /\ handle_log = Pending
    /\ handle_log' = ParseHandles(parse_env)
    /\ UNCHANGED <<parse_env, handleOthers>>

----------------------------------------------------------------------------
(* Properties of workbook handles *)

Opened(log) == {log[i][2] : i \in {j \in DOMAIN log : log[j][1] = "open"}}

ClosedAfterOpen(log, h) ==
    \A i \in DOMAIN log :
        log[i] = Opens(h) => \E j \in DOMAIN log : j > i /\ log[j] = Closes(h)

\* C15 as stated: when the parse call has returned or raised, every workbook
\* handle it opened (the main workbook, the data_only workbook of the
\* alternative pass, the one of the standard pass, the one opened for each
\* formula cell) has been closed.
C15_HandlesClosedOnEveryExit ==
    handle_log # Pending =>
        \A h \in Opened(handle_log.events) :
            ClosedAfterOpen(handle_log.events, h)

----------------------------------------------------------------------------
(* Sessions: the endpoints of upload.py and analysis.py over the module-level *)
(* dict active_sessions.  Every endpoint is an "async def" whose awaits       *)
(* (_save_upload_file, parse_model_pair and the coroutines below it) never    *)
(* suspend, so a request is served in one step.  A session dict is a record   *)
(* with Absent for a key it does not hold.  An uploaded pair is               *)
(* [parses, sheets]: whether parse_model_pair gets through it, and the sheet  *)
(* names of the old workbook.                                                 *)

Absent == [kind |-> "absent"]

SessionIds == 1..MaxSessions

\* the sheet names a request can give; the uploaded workbooks hold the first
SheetNamePool == {"IS", "CF"}

FilePairs == [parses : BOOLEAN, sheets : {{"IS"}}]

\* old_model.dict() / new_model.dict() of parse_model_pair(old, new)
ParsedModel(model_type, files) ==
    [kind |-> "model", model_type |-> model_type, sheets |-> files.sheets]

\* active_sessions[session_id] = {...} of upload_model_pair
UploadedSession ==
    [status |-> "processing", old_model |-> Absent, new_model |-> Absent,
     error |-> Absent, selected_sheets |-> Absent, period_analysis |-> Absent,
     available_periods |-> Absent, periods_approved |-> FALSE,
     used_custom_templates |-> FALSE, consistency_check |-> Absent,
     periods_need_review |-> Absent]

\* the models are stored and the status is left as it was
ProcessedSession_StatusLeft(session, files, failed_status) ==
    IF files.parses
    THEN [session EXCEPT !.old_model = ParsedModel("old", files),
                         !.new_model = ParsedModel("new", files),
                         !.consistency_check = [kind |-> "consistency"]]
    ELSE [session EXCEPT !.error = [kind |-> "str"]]

\* the status is set to completed with the two models and nothing else stored
ProcessedSession_ModelsOnly(session, files, failed_status) ==
    IF files.parses
    THEN [session EXCEPT !.old_model = ParsedModel("old", files),
                         !.new_model = ParsedModel("new", files),
                         !.status = "completed"]
    ELSE [session EXCEPT !.status = failed_status,
                         !.error = [kind |-> "str"]]

\* the try block around parse_model_pair: the models are stored and the
\* status set to completed, or the status set to failed_status with the error
ProcessedSession(session, files, failed_status) ==
    IF files.parses
    THEN [session EXCEPT !.old_model = ParsedModel("old", files),
                         !.new_model = ParsedModel("new", files),
                         !.consistency_check = [kind |-> "consistency"],
                         !.status = "completed"]
    ELSE [session EXCEPT !.status = failed_status,
                         !.error = [kind |-> "str"]]

\* the write goes to the dict of every session
UpdateSession_EverySession(sessions, session_id, session) ==
    [other \in DOMAIN sessions |-> session]

\* "session = active_sessions[session_id]" followed by writes to session: the
\* dict of that one session is replaced
UpdateSession(sessions, session_id, session) ==
    [sessions EXCEPT ![session_id] = session]

\* str(uuid.uuid4()): an id no session has
FreshIds == SessionIds \ DOMAIN active_sessions

Response(op, session_id, status_code, body) ==
    [op |-> op, session_id |-> session_id, status_code |-> status_code,
     body |-> body]

\* POST /upload-models
UploadModelPair ==
    \E session_id \in FreshIds, files \in FilePairs, saved \in BOOLEAN :
        IF ~saved
        THEN /\ response' = Response("upload", session_id, 500, Absent)
             /\ UNCHANGED <<active_sessions, uploads, sessionOthers>>
        ELSE LET session == ProcessedSession(UploadedSession, files, "failed")
             IN  /\ active_sessions' = active_sessions @@ (session_id :> session)
                 /\ uploads' = uploads @@ (session_id :> files)
                 /\ response' = Response("upload", session_id, 200,
                                         [status |-> session.status])
                 /\ UNCHANGED sessionOthers

\* POST /process-models/{session_id}
ProcessModels ==
    \E session_id \in SessionIds :
        IF session_id \notin DOMAIN active_sessions
        THEN /\ response' = Response("process", session_id, 404, Absent)
             /\ UNCHANGED <<active_sessions, uploads, sessionOthers>>
        ELSE LET session == ProcessedSession(
                                [active_sessions[session_id]
                                    EXCEPT !.status = "processing"],
                                uploads[session_id], "error")
             IN  /\ active_sessions' =
                        UpdateSession(active_sessions, session_id, session)
                 /\ response' =
                        Response("process", session_id,
                                 IF session.status = "completed" THEN 200
                                 ELSE 500, Absent)
                 /\ UNCHANGED <<uploads, sessionOthers>>

P_FY24 == <<"F", "Y", "2", "4">>

\* the periods parse_financial_statements reads off the selected sheet, in
\* column order
PeriodsOfSheet(sheet_name) ==
    IF sheet_name = "IS" THEN <<P_2Q25, P_1Q25, P_FY24>> ELSE <<Str(2024)>>

\* what find_periods_using_templates finds on that sheet with the custom
\* templates of an approval
TemplatePeriodsOfSheet(sheet_name) ==
    IF sheet_name = "IS" THEN <<P_3Q25E, P_1Q25>> ELSE <<>>

\* the characters of the model in code-point order
CodePoints == <<" ">> \o Digits \o UpperChars \o LowerChars

Ord(c) == CHOOSE i \in DOMAIN CodePoints : CodePoints[i] = c

\* a < b for two str
RECURSIVE TextLess(_, _)
TextLess(a, b) ==
    IF b = <<>> THEN FALSE
    ELSE IF a = <<>> THEN TRUE
    ELSE IF Head(a) = Head(b) THEN TextLess(Tail(a), Tail(b))
    ELSE Ord(Head(a)) < Ord(Head(b))

\* the list left as it is
Unsorted(texts) == texts

\* sorted(texts)
RECURSIVE Sorted(_)
Sorted(texts) ==
    IF texts = <<>> THEN <<>>
    ELSE LET sorted == Sorted(SubSeq(texts, 1, Len(texts) - 1))
             t == texts[Len(texts)]
             before == {i \in DOMAIN sorted : ~TextLess(t, sorted[i])}
             k == IF before = {} THEN 0
                  ELSE CHOOSE i \in before : \A j \in before : j <= i
         IN  SubSeq(sorted, 1, k) \o <<t>> \o SubSeq(sorted, k + 1, Len(sorted))

\* list(set(texts)), in some order
RECURSIVE ListOfSet(_)
ListOfSet(texts) ==
    IF texts = <<>> THEN <<>>
    ELSE IF InSeq(Head(texts), Tail(texts)) THEN ListOfSet(Tail(texts))
    ELSE <<Head(texts)>> \o ListOfSet(Tail(texts))

review_threshold == 50

\* "any(q in period.upper() for q in ['1Q', '2Q', '3Q', '4Q']) or 'Q' in
\* period.upper()"
IsQuarterly(p) == IsSubstring(<<"q">>, Lower(p))

\* "any(pattern in period for pattern in ['FY', '19', '20', ..., '27'])"
IsAnnual(p) ==
    \/ IsSubstring(<<"F", "Y">>, p)
    \/ \E yy \in 19..27 : IsSubstring(Str(yy), p)

\* period_analysis of select_financial_statement_sheets
PeriodAnalysis(periods_list) ==
    [kind |-> "analysis",
     annual_periods |->
         SelectSeq(periods_list, LAMBDA p : ~IsQuarterly(p) /\ IsAnnual(p)),
     quarterly_periods |-> SelectSeq(periods_list, IsQuarterly),
     other_periods |->
         SelectSeq(periods_list, LAMBDA p : ~IsQuarterly(p) /\ ~IsAnnual(p))]

\* the session dict left as it is
SelectionStored_Skipped(session, sheet_selection) == session

\* session["selected_sheets"] = sheet_selection
SelectionStored(session, sheet_selection) ==
    [session EXCEPT !.selected_sheets = sheet_selection]

\* POST /session/{session_id}/select-sheets: the selection is stored before
\* the old file is parsed; a sheet missing from the workbook makes
\* parse_financial_statements raise a ValueError that names it
SelectFinancialStatementSheets ==
    \E session_id \in SessionIds, sheet_name \in SheetNamePool :
        IF session_id \notin DOMAIN active_sessions
        THEN /\ response' = Response("select-sheets", session_id, 404, Absent)
             /\ UNCHANGED <<active_sessions, uploads, sessionOthers>>
        ELSE LET session == active_sessions[session_id]
                 selected == SelectionStored(session,
                                 [kind |-> "dict", income_statement |-> sheet_name])
                 periods_list == Sorted(ListOfSet(PeriodsOfSheet(sheet_name)))
             IN  IF sheet_name \notin uploads[session_id].sheets
                 THEN /\ active_sessions' =
                             UpdateSession(active_sessions, session_id, selected)
                      /\ response' =
                             Response("select-sheets", session_id, 500,
                                 [text |-> "Failed to process sheet selection",
                                  missing_sheets |-> <<sheet_name>>])
                      /\ UNCHANGED <<uploads, sessionOthers>>
                 ELSE /\ active_sessions' =
                             UpdateSession(active_sessions, session_id,
                                 [selected EXCEPT
                                     !.period_analysis =
                                         PeriodAnalysis(periods_list),
                                     !.periods_need_review =
                                         Len(periods_list) < review_threshold])
                      /\ response' =
                             Response("select-sheets", session_id, 200,
                                      PeriodAnalysis(periods_list))
                      /\ UNCHANGED <<uploads, sessionOthers>>

\* the periods a period_analysis lists; {} .get(...) gives [] for each list
AnalysedPeriods(period_analysis) ==
    IF period_analysis = Absent THEN <<>>
    ELSE period_analysis.annual_periods \o period_analysis.quarterly_periods
             \o period_analysis.other_periods

\* the request bodies of approve-periods: approved, or not approved without
\* and with custom templates
Approvals ==
    {[approved |-> TRUE, custom_templates |-> 0],
     [approved |-> FALSE, custom_templates |-> 0],
     [approved |-> FALSE, custom_templates |-> 1]}

\* POST /session/{session_id}/approve-periods: an HTTPException raised inside
\* the try block comes out as 500
ApproveDetectedPeriods ==
    \E session_id \in SessionIds, approval \in Approvals :
        IF session_id \notin DOMAIN active_sessions
        THEN /\ response' = Response("approve-periods", session_id, 404, Absent)
             /\ UNCHANGED <<active_sessions, uploads, sessionOthers>>
        ELSE LET session == active_sessions[session_id] IN
             IF approval.approved
             THEN LET periods_list == AnalysedPeriods(session.period_analysis)
                  IN  /\ active_sessions' =
                             UpdateSession(active_sessions, session_id,
                                 [session EXCEPT
                                     !.available_periods =
                                         [kind |-> "list",
                                          periods |-> Sorted(periods_list)],
                                     !.periods_approved = TRUE])
                      /\ response' = Response("approve-periods", session_id,
                                              200,
                                              [status |-> "periods_approved",
                                               available_periods |->
                                                   Sorted(periods_list)])
                      /\ UNCHANGED <<uploads, sessionOthers>>
             ELSE IF \/ approval.custom_templates = 0
                     \/ session.selected_sheets = Absent
                     \/ session.selected_sheets.income_statement
                            \notin uploads[session_id].sheets
             THEN /\ response' =
                         Response("approve-periods", session_id, 500, Absent)
                  /\ UNCHANGED <<active_sessions, uploads, sessionOthers>>
             ELSE LET sheet_name == session.selected_sheets.income_statement
                      periods_list ==
                          Sorted(ListOfSet(PeriodsOfSheet(sheet_name)
                                     \o TemplatePeriodsOfSheet(sheet_name)))
                  IN  /\ active_sessions' =
                             UpdateSession(active_sessions, session_id,
                                 [session EXCEPT
                                     !.available_periods =
                                         [kind |-> "list",
                                          periods |-> periods_list],
                                     !.periods_approved = TRUE,
                                     !.used_custom_templates = TRUE])
                      /\ response' = Response("approve-periods", session_id,
                                              200,
                                              [status |-> "custom_templates_applied",
                                               available_periods |-> periods_list])
                      /\ UNCHANGED <<uploads, sessionOthers>>

\* GET /session/{session_id}/periods: session.get("available_periods", []),
\* session.get("selected_sheets", {}) and the first period or None
GetAvailablePeriods ==
    \E session_id \in SessionIds :
        /\ response' =
              IF session_id \notin DOMAIN active_sessions
              THEN Response("periods", session_id, 404, Absent)
              ELSE LET session == active_sessions[session_id]
                       periods == IF session.available_periods = Absent THEN <<>>
                                  ELSE session.available_periods.periods
                   IN  Response("periods", session_id, 200,
                                [available_periods |-> periods,
                                 selected_sheets |-> session.selected_sheets,
                                 default_period |->
                                     IF periods # <<>> THEN SomeText(periods[1])
                                     ELSE NoText])
        /\ UNCHANGED <<active_sessions, uploads, sessionOthers>>

\* GET /variance/{session_id}: 400 unless the status is completed or
\* processing; variance_data is calculated from the stored models when both
\* are there; with a model missing the summary's old_model.get(...) raises
GetExecutiveSummaryOfSession ==
    \E session_id \in SessionIds :
        /\ response' =
              IF session_id \notin DOMAIN active_sessions
              THEN Response("variance", session_id, 404, Absent)
              ELSE LET session == active_sessions[session_id] IN
                   IF session.status \notin {"completed", "processing"}
                   THEN Response("variance", session_id, 400, Absent)
                   ELSE IF session.old_model # Absent
                           /\ session.new_model # Absent
                   THEN Response("variance", session_id, 200,
                                 [status |-> "calculated",
                                  old_model |-> session.old_model,
                                  new_model |-> session.new_model])
                   ELSE Response("variance", session_id, 500, Absent)
        /\ UNCHANGED <<active_sessions, uploads, sessionOthers>>

\* the request bodies of drill-down: the statement type, "none" for a body
\* with a field missing, and whether the sheet holds the named line item
DrillDownBodies ==
    [statement_type : {"income_statement", "balance_sheet", "none"},
     line_item_known : BOOLEAN]

\* an HTTPException(status_code, detail) on its way out of the handler
Raised(status_code, detail) ==
    [kind |-> "HTTPException", status_code |-> status_code, detail |-> detail]

\* "except Exception as e: raise HTTPException(status_code=500,
\* detail=f'Drill-down analysis failed: {str(e)}')" around the try block: an
\* HTTPException is an Exception, so what the block raises is raised again as
\* a 500 that quotes it
Caught(e) ==
    Raised(500, [text |-> "Drill-down analysis failed", quoted |-> e])

\* sheet_name = selected_sheets.get(statement_type)
SelectedSheet(selection, statement_type) ==
    IF statement_type = "income_statement"
    THEN SomeText(selection.income_statement)
    ELSE NoText

\* the body of drill_down_line_item behind the session lookup: what it
\* raises, or the response it returns
DrillDownOutcome(session, files, request_body) ==
    IF request_body.statement_type = "none"
    THEN Raised(400, [text |-> "Missing required fields"])
    ELSE IF session.selected_sheets = Absent
    THEN Caught(Raised(400, [text |-> "Session missing required data for drill-down"]))
    ELSE LET sheet_name == SelectedSheet(session.selected_sheets,
                                         request_body.statement_type)
         IN  IF sheet_name.is_none
             THEN Caught(Raised(400, [text |-> "No sheet selected for",
                                      statement_type |->
                                          request_body.statement_type]))
             ELSE IF \/ sheet_name.text \notin files.sheets
                     \/ ~request_body.line_item_known
             THEN Caught(Raised(404, [text |-> "Could not perform drill-down analysis"]))
             ELSE [kind |-> "response", sheet_name |-> sheet_name.text]

\* POST /drill-down/{session_id}: the files and the selected sheet of the
\* session are read, nothing is stored
DrillDownLineItem ==
    \E session_id \in SessionIds, request_body \in DrillDownBodies :
        /\ response' =
              IF session_id \notin DOMAIN active_sessions
              THEN Response("drill-down", session_id, 404,
                            Raised(404, [text |-> "Session not found"]))
              ELSE LET outcome == DrillDownOutcome(active_sessions[session_id],
                                                   uploads[session_id],
                                                   request_body)
                   IN  Response("drill-down", session_id,
                                IF outcome.kind = "HTTPException"
                                THEN outcome.status_code ELSE 200,
                                outcome)
        /\ UNCHANGED <<active_sessions, uploads, sessionOthers>>

NoResponse == [op |-> "none"]

\* active_sessions = {} at import
SessionInit ==
    /\ active_sessions = <<>>
    /\ uploads = <<>>
    /\ response = NoResponse

SessionIdle == SessionInit

----------------------------------------------------------------------------
(* Properties of sessions *)

\* the session a served request names: both of its parses have completed
ParsesCompleted(session) ==
    /\ session.status = "completed"
    /\ session.old_model # Absent
    /\ session.new_model # Absent

Calculated(r) ==
    r.op = "variance" /\ r.status_code = 200 /\ r.body.status = "calculated"

C25_StatusAndModels ==
    \A session_id \in DOMAIN active_sessions :
        LET session == active_sessions[session_id] IN
        /\ session.status \in {"processing", "completed", "failed", "error"}
        /\ session.status = "completed" =>
               /\ session.old_model # Absent
               /\ session.new_model # Absent
               /\ session.consistency_check # Absent

\* process-models has completed one session again while the upload of
\* another one has failed
C25_Witness ==
    /\ response.op = "process"
    /\ response.status_code = 200
    /\ active_sessions[response.session_id].status = "completed"
    /\ \E other \in DOMAIN active_sessions :
           active_sessions[other].status = "failed"

\* what the try block of drill_down_line_item raised, when the response
\* quotes it
RaisedInside(r) ==
    IF r.body.kind = "HTTPException" /\ r.status_code = 500
    THEN r.body.detail.quoted ELSE r.body

\* C26 as stated: the drill-down endpoint answers 400 when the session lacks
\* file paths or a sheet selection or has no sheet selected for the requested
\* statement type, and 404 when the analysis returns no result; each of these
\* statuses reaches the client as raised.
C26_DrillDownStatusesAsRaised ==
    (response.op = "drill-down" /\ response.body.kind = "HTTPException") =>
        response.status_code = RaisedInside(response).status_code

\* the periods a select-sheets call recorded in period_analysis
RecordedPeriods(period_analysis) ==
    IF period_analysis = Absent THEN {}
    ELSE Range(period_analysis.annual_periods)
             \cup Range(period_analysis.quarterly_periods)
             \cup Range(period_analysis.other_periods)

\* the list holds each period of the set once, in ascending order
IsSortedListOf(list, periods) ==
    /\ Range(list) = periods
    /\ \A i, j \in DOMAIN list : i < j => TextLess(list[i], list[j])

ApprovedBy(r, session_id) ==
    r.op = "approve-periods" /\ r.status_code = 200 /\ r.session_id = session_id

\* C28: get_available_periods reports an empty list and no default period
\* until an approve-periods call on the session has succeeded; a successful
\* approve-periods with approved=true makes it report exactly the sorted
\* periods recorded by the latest select-sheets call before it, with the
\* first of them as default_period.  Step by step: only a successful
\* approve-periods on a session changes its available_periods; with
\* approved=true it stores the sorted recorded periods; get_available_periods
\* reports what is stored.
C28_AvailablePeriods ==
    [][/\ \A session_id \in DOMAIN active_sessions :
              /\ ~ApprovedBy(response', session_id) =>
                     /\ session_id \in DOMAIN active_sessions'
                     /\ active_sessions'[session_id].available_periods
                            = active_sessions[session_id].available_periods
              /\ (ApprovedBy(response', session_id)
                    /\ response'.body.status = "periods_approved") =>
                     IsSortedListOf(
                         active_sessions'[session_id].available_periods.periods,
                         RecordedPeriods(
                             active_sessions[session_id].period_analysis))
       /\ (response'.op = "periods" /\ response'.status_code = 200) =>
              LET session == active_sessions'[response'.session_id]
                  reported == response'.body.available_periods
              IN  /\ reported = IF session.available_periods = Absent THEN <<>>
                                ELSE session.available_periods.periods
                  /\ ~session.periods_approved => reported = <<>>
                  /\ response'.body.default_period =
                         IF reported = <<>> THEN NoText
                         ELSE SomeText(reported[1])]_vars

\* the periods of the sheet approved earlier are reported, in sorted order,
\* after the selection of another sheet has failed
C28_Witness ==
    /\ response.op = "periods"
    /\ response.status_code = 200
    /\ response.body.available_periods = <<P_1Q25, P_2Q25, P_FY24>>
    /\ response.body.default_period = SomeText(P_1Q25)
    /\ active_sessions[response.session_id].selected_sheets.income_statement = "CF"
    /\ ~active_sessions[response.session_id].used_custom_templates

\* C29: select-sheets writes the requested selection into the session before
\* period detection runs: when detection fails and the call answers 500,
\* selected_sheets holds the new selection while period_analysis and
\* periods_need_review keep the values they had before the call.
C29_SelectionKeptOnFailure ==
    [][(response'.op = "select-sheets" /\ response'.status_code = 500) =>
          LET before == active_sessions[response'.session_id]
              after == active_sessions'[response'.session_id]
          IN  /\ after.selected_sheets =
                     [kind |-> "dict",
                      income_statement |-> response'.body.missing_sheets[1]]
              /\ after.period_analysis = before.period_analysis
              /\ after.periods_need_review = before.periods_need_review]_vars

\* a selection has failed on a session that holds the period analysis of an
\* earlier selection
C29_Witness ==
    /\ response.op = "select-sheets"
    /\ response.status_code = 500
    /\ active_sessions[response.session_id].selected_sheets.income_statement = "CF"
    /\ active_sessions[response.session_id].period_analysis # Absent
    /\ active_sessions[response.session_id].periods_need_review = TRUE

\* C17: a request on one session, whatever came before it on any session,
\* leaves the session dict and the uploaded files of every other session as
\* they were.
C17_SessionsIndependent ==
    [][\A other \in DOMAIN active_sessions :
          other # response'.session_id =>
              /\ other \in DOMAIN active_sessions'
              /\ active_sessions'[other] = active_sessions[other]
              /\ uploads'[other] = uploads[other]]_vars

\* two sessions hold different sheet selections and period approvals after
\* requests on each of them
C17_Witness ==
    \E one, other \in DOMAIN active_sessions :
        /\ one # other
        /\ active_sessions[one].selected_sheets # Absent
        /\ active_sessions[other].selected_sheets # Absent
        /\ active_sessions[one].selected_sheets
               # active_sessions[other].selected_sheets
        /\ active_sessions[one].periods_approved
        /\ ~active_sessions[other].periods_approved
        /\ response.op = "drill-down" /\ response.session_id = other

----------------------------------------------------------------------------
(* The dependency-tree build over formula graphs: every cell of the graph   *)
(* is a literal or a formula over references to cells of the graph (itself *)
(* included) and to a cell that cannot be read.                             *)

GraphAddresses == {CellAddress(<<"A">>, row) : row \in 1..MaxCells}

\* a reference that does not resolve
Unreadable == CellAddress(<<"Z">>, 1)

\* the reference lists of a formula: cells of the graph in row order, then
\* possibly the unreadable cell
References ==
    {[i \in 1..Cardinality(R) |-> CellAddress(<<"A">>, RowsOf(R)[i])] \o tail :
        R \in SUBSET (1..MaxCells), tail \in {<<>>, <<Unreadable>>}}

FormulaGraphs ==
    {[address \in GraphAddresses |->
         [refs |-> refs[address], op |-> IF refs[address] = <<>> THEN "None"
                                         ELSE "+",
          value |-> address.row]] :
        refs \in [GraphAddresses -> References]}

TreeInit ==
    /\ formula_cells \in FormulaGraphs
    /\ tree_root \in GraphAddresses \cup {Unreadable}
    /\ dependency_tree = Pending

TreeIdle ==
    /\ formula_cells = [address \in GraphAddresses |-> Literal(address.row)]
    /\ tree_root = Unreadable
    /\ dependency_tree = Pending

\* the build called with a budget one above max_depth
BuildDependencyTree_DeeperBudget ==
    /\ dependency_tree = Pending
    /\ dependency_tree' = [status |-> "returned",
                           component |-> BuildTree(formula_cells, tree_root,
                                                   max_depth + 1)]
    /\ UNCHANGED <<formula_cells, tree_root, treeOthers>>

\* self.formula_analyzer.build_dependency_tree(file_path, sheet_name,
\* cell_address, max_depth=2)
BuildDependencyTree ==
    /\ dependency_tree = Pending
    /\ dependency_tree' = [status |-> "returned",
                           component |-> BuildTree(formula_cells, tree_root,
                                                   max_depth)]
    /\ UNCHANGED <<formula_cells, tree_root, treeOthers>>

----------------------------------------------------------------------------
(* Properties of the dependency-tree build *)

\* the nodes of a tree, each with the number of edges from the root to it
RECURSIVE NodesAt(_, _)
NodesAt(component, level) ==
    {[node |-> component, level |-> level]}
        \cup UNION {NodesAt(component.children[i], level + 1) :
                        i \in DOMAIN component.children}

\* a cell that refers to itself, directly or through another cell
RECURSIVE Reaches(_, _, _)
Reaches(from, to, steps) ==
    /\ steps > 0
    /\ from \in GraphAddresses
    /\ \E i \in DOMAIN formula_cells[from].refs :
          \/ formula_cells[from].refs[i] = to
          \/ Reaches(formula_cells[from].refs[i], to, steps - 1)

Cyclic(address) == Reaches(address, address, MaxCells)

----------------------------------------------------------------------------
(* Sheet-type detection: DualExcelParser._detect_sheet_type and             *)
(* UniversalExcelParser._detect_sheet_type_enhanced over a sheet name and   *)
(* the cells of sheet_info['sample_data'], and detect_financial_keywords.   *)

\* the keyword lists the sheet name is tested against
name_income_keywords ==
    <<<<"i", "n", "c", "o", "m", "e">>,
      <<"p", "&", "l">>,
      <<"p", "r", "o", "f", "i", "t">>,
      <<"l", "o", "s", "s">>,
      <<"r", "e", "v", "e", "n", "u", "e">>,
      <<"s", "a", "l", "e", "s">>,
      <<"e", "a", "r", "n", "i", "n", "g", "s">>>>

name_balance_keywords ==
    <<<<"b", "a", "l", "a", "n", "c", "e">>,
      <<"s", "h", "e", "e", "t">>,
      <<"a", "s", "s", "e", "t", "s">>,
      <<"l", "i", "a", "b", "i", "l", "i", "t", "i", "e", "s">>,
      <<"e", "q", "u", "i", "t", "y">>>>

name_cash_flow_keywords ==
    <<<<"c", "a", "s", "h">>,
      <<"f", "l", "o", "w">>,
      <<"o", "p", "e", "r", "a", "t", "i", "n", "g">>,
      <<"i", "n", "v", "e", "s", "t", "i", "n", "g">>,
      <<"f", "i", "n", "a", "n", "c", "i", "n", "g">>>>

\* keyword_groups of detect_financial_keywords
group_income_statement ==
    <<<<"i", "n", "c", "o", "m", "e">>,
      <<"p", "r", "o", "f", "i", "t">>,
      <<"l", "o", "s", "s">>,
      <<"p", "&", "l">>,
      <<"r", "e", "v", "e", "n", "u", "e">>,
      <<"s", "a", "l", "e", "s">>,
      <<"e", "b", "i", "t", "d", "a">>,
      <<"e", "b", "i", "t">>,
      <<"o", "p", "e", "r", "a", "t", "i", "n", "g">>,
      <<"g", "r", "o", "s", "s", " ", "p", "r", "o", "f", "i", "t">>,
      <<"n", "e", "t", " ", "i", "n", "c", "o", "m", "e">>,
      <<"e", "a", "r", "n", "i", "n", "g", "s">>,
      <<"m", "a", "r", "g", "i", "n">>>>

group_balance_sheet ==
    <<<<"b", "a", "l", "a", "n", "c", "e">>,
      <<"s", "h", "e", "e", "t">>,
      <<"a", "s", "s", "e", "t", "s">>,
      <<"l", "i", "a", "b", "i", "l", "i", "t", "i", "e", "s">>,
      <<"e", "q", "u", "i", "t", "y">>,
      <<"c", "a", "s", "h">>,
      <<"d", "e", "b", "t">>,
      <<"c", "u", "r", "r", "e", "n", "t", " ", "a", "s", "s", "e", "t", "s">>,
      <<"f", "i", "x", "e", "d", " ", "a", "s", "s", "e", "t", "s">>,
      <<"r", "e", "t", "a", "i", "n", "e", "d", " ", "e", "a", "r", "n", "i", "n", "g", "s">>,
      <<"s", "t", "o", "c", "k", "h", "o", "l", "d", "e", "r">>>>

group_cash_flow ==
    <<<<"c", "a", "s", "h", " ", "f", "l", "o", "w">>,
      <<"o", "p", "e", "r", "a", "t", "i", "n", "g", " ", "c", "a", "s", "h">>,
      <<"i", "n", "v", "e", "s", "t", "i", "n", "g">>,
      <<"f", "i", "n", "a", "n", "c", "i", "n", "g">>,
      <<"c", "a", "p", "e", "x">>,
      <<"f", "r", "e", "e", " ", "c", "a", "s", "h", " ", "f", "l", "o", "w">>,
      <<"w", "o", "r", "k", "i", "n", "g", " ", "c", "a", "p", "i", "t", "a", "l">>,
      <<"d", "e", "p", "r", "e", "c", "i", "a", "t", "i", "o", "n">>>>

\* the keyword lists of _detect_sheet_type_enhanced
income_keywords ==
    <<<<"r", "e", "v", "e", "n", "u", "e">>,
      <<"s", "a", "l", "e", "s">>,
      <<"i", "n", "c", "o", "m", "e">>,
      <<"p", "r", "o", "f", "i", "t">>,
      <<"l", "o", "s", "s">>,
      <<"e", "a", "r", "n", "i", "n", "g", "s">>,
      <<"e", "x", "p", "e", "n", "s", "e">>>>

balance_keywords ==
    <<<<"a", "s", "s", "e", "t", "s">>,
      <<"l", "i", "a", "b", "i", "l", "i", "t", "i", "e", "s">>,
      <<"e", "q", "u", "i", "t", "y">>,
      <<"c", "a", "p", "i", "t", "a", "l">>,
      <<"r", "e", "t", "a", "i", "n", "e", "d">>,
      <<"c", "u", "r", "r", "e", "n", "t">>>>

cashflow_keywords ==
    <<<<"o", "p", "e", "r", "a", "t", "i", "n", "g">>,
      <<"i", "n", "v", "e", "s", "t", "i", "n", "g">>,
      <<"f", "i", "n", "a", "n", "c", "i", "n", "g">>,
      <<"c", "a", "s", "h">>,
      <<"f", "l", "o", "w">>,
      <<"p", "a", "y", "m", "e", "n", "t">>>>

\* "any(keyword in text for keyword in keywords)"
AnyKeywordIn(keywords, text) ==
    \E i \in DOMAIN keywords : IsSubstring(keywords[i], text)

\* "sum(1 for keyword in keywords if keyword in text)"
KeywordScore(keywords, text) ==
    Cardinality({i \in DOMAIN keywords : IsSubstring(keywords[i], text)})

\* the if / elif chain over the lower-cased sheet name
SheetTypeByName(sheet_name) ==
    LET sheet_name_lower == Lower(sheet_name) IN
    IF AnyKeywordIn(name_income_keywords, sheet_name_lower)
    THEN "income_statement"
    ELSE IF AnyKeywordIn(name_balance_keywords, sheet_name_lower)
    THEN "balance_sheet"
    ELSE IF AnyKeywordIn(name_cash_flow_keywords, sheet_name_lower)
    THEN "cash_flow"
    ELSE "none"

\* ' '.join(all_text), all_text the str values of the sample cells
RECURSIVE CombinedText(_)
CombinedText(cells) ==
    IF cells = <<>> THEN <<>>
    ELSE IF Head(cells).kind # "str" THEN CombinedText(Tail(cells))
    ELSE LET rest == CombinedText(Tail(cells)) IN
         IF \A i \in DOMAIN Tail(cells) : Tail(cells)[i].kind # "str"
         THEN Head(cells).text
         ELSE Head(cells).text \o <<" ">> \o rest

\* detect_financial_keywords(text): the scores in the order of keyword_groups
DetectFinancialKeywords(text) ==
    LET text_lower == Lower(text) IN
    <<[category |-> "income_statement",
       score |-> KeywordScore(group_income_statement, text_lower)],
      [category |-> "balance_sheet",
       score |-> KeywordScore(group_balance_sheet, text_lower)],
      [category |-> "cash_flow",
       score |-> KeywordScore(group_cash_flow, text_lower)]>>

\* max(items, key=lambda x: x[1]) over a non-empty list: the first item no
\* other item exceeds
MaxByScore(items) ==
    items[CHOOSE i \in DOMAIN items :
              /\ \A j \in DOMAIN items : items[j].score <= items[i].score
              /\ \A j \in 1..(i - 1) : items[j].score < items[i].score]

\* DualExcelParser._detect_sheet_type(sheet_name, sheet_info)
DetectSheetType(sheet_name, sample_data) ==
    IF SheetTypeByName(sheet_name) # "none" THEN SheetTypeByName(sheet_name)
    ELSE LET best_match ==
                 MaxByScore(DetectFinancialKeywords(CombinedText(sample_data)))
         IN  IF best_match.score > 0 THEN best_match.category ELSE "unknown"

\* UniversalExcelParser._detect_sheet_type_enhanced(sheet_name, sheet_info)
DetectSheetTypeEnhanced(sheet_name, sample_data) ==
    IF SheetTypeByName(sheet_name) # "none" THEN SheetTypeByName(sheet_name)
    ELSE LET combined_text == Lower(CombinedText(sample_data))
             income_score == KeywordScore(income_keywords, combined_text)
             balance_score == KeywordScore(balance_keywords, combined_text)
             cashflow_score == KeywordScore(cashflow_keywords, combined_text)
         IN  IF income_score > balance_score /\ income_score > cashflow_score
             THEN "income_statement"
             ELSE IF balance_score > cashflow_score THEN "balance_sheet"
             ELSE IF cashflow_score > 0 THEN "cash_flow"
             ELSE "unknown"

----------------------------------------------------------------------------
(* Inputs of sheet-type detection *)

\* sheet names: one that matches no keyword list, one per list
SheetTitlePool ==
    {<<"D", "a", "t", "a">>,
     <<"I", "n", "c", "o", "m", "e">>,
     <<"S", "h", "e", "e", "t", "1">>,
     <<"C", "a", "s", "h">>}

SampleCellPool ==
    {StrCell(<<"R", "e", "v", "e", "n", "u", "e">>),
     StrCell(<<"T", "o", "t", "a", "l", " ", "A", "s", "s", "e", "t", "s">>),
     StrCell(<<"C", "a", "s", "h", " ", "F", "l", "o", "w">>),
     StrCell(<<"C", "a", "p", "e", "x">>),
     StrCell(<<"N", "o", "t", "e", "s">>),
     StrCell(<<"O", "p", "e", "r", "a", "t", "i", "n", "g", " ", "I", "n", "c", "o", "m", "e">>),
     IntCell(2024)}

SampleData == UNION {[1..n -> SampleCellPool] : n \in 0..MaxSampleCells}

TypeInit ==
    /\ sheet_title \in SheetTitlePool
    /\ sheet_sample \in SampleData
    /\ sheet_type = Pending
    /\ sheet_type_enhanced = Pending

TypeIdle ==
    /\ sheet_title = CHOOSE t \in SheetTitlePool : SheetTypeByName(t) = "none"
    /\ sheet_sample = <<>>
    /\ sheet_type = Pending
    /\ sheet_type_enhanced = Pending

\* sheet_type = self._detect_sheet_type(sheet_name, sheet_info); a sheet of
\* type unknown is left out of the model
DetectTypeOfSheet ==
    /\ sheet_type = Pending
    /\ LET type == DetectSheetType(sheet_title, sheet_sample) IN
       sheet_type' = [status |-> "returned", value |-> type,
                      skipped |-> type = "unknown"]
    /\ UNCHANGED <<sheet_title, sheet_sample, sheet_type_enhanced, typeOthers>>

\* self._detect_sheet_type_enhanced(sheet_name, sheet_info)
DetectTypeOfSheetEnhanced ==
    /\ sheet_type_enhanced = Pending
    /\ sheet_type_enhanced' =
           [status |-> "returned",
            value |-> DetectSheetTypeEnhanced(sheet_title, sheet_sample)]
    /\ UNCHANGED <<sheet_title, sheet_sample, sheet_type, typeOthers>>

----------------------------------------------------------------------------
(* Properties of sheet-type detection *)

\* what content scoring is to return: the one category whose score is
\* non-zero and above every other score, else unknown
Decided(scores) ==
    LET best == {i \in DOMAIN scores :
                    /\ scores[i].score > 0
                    /\ \A j \in DOMAIN scores \ {i} :
                           scores[j].score < scores[i].score}
    IN  IF best = {} THEN "unknown" ELSE scores[CHOOSE i \in best : TRUE].category

EnhancedScores(text) ==
    <<[category |-> "income_statement",
       score |-> KeywordScore(income_keywords, Lower(text))],
      [category |-> "balance_sheet",
       score |-> KeywordScore(balance_keywords, Lower(text))],
      [category |-> "cash_flow",
       score |-> KeywordScore(cashflow_keywords, Lower(text))]>>

\* C20 as stated: for a sheet whose name matches no keyword list, detection
\* returns the one category with the strictly highest non-zero content
\* score, and unknown (the sheet is skipped) when the highest score is
\* shared or every score is zero.
C20_StrictlyHighestScoreOrUnknown ==
    SheetTypeByName(sheet_title) = "none" =>
        /\ sheet_type # Pending =>
               /\ sheet_type.value =
                      Decided(DetectFinancialKeywords(CombinedText(sheet_sample)))
               /\ sheet_type.skipped = (sheet_type.value = "unknown")
        /\ sheet_type_enhanced # Pending =>
               sheet_type_enhanced.value =
                   Decided(EnhancedScores(CombinedText(sheet_sample)))

----------------------------------------------------------------------------
(* Specifications *)

Init == MatchInit /\ ParseIdle /\ DrillIdle /\ TemplateIdle /\ ScanIdle /\ HandleIdle /\ SessionIdle /\ TreeIdle /\ TypeIdle /\ ExtractIdle /\ SortIdle

Next == MatchNext

\* matching and variance computation over a pair of statements
Spec == Init /\ [][Next]_vars

InitParse == ParseInit /\ MatchIdle /\ DrillIdle /\ TemplateIdle /\ ScanIdle /\ HandleIdle /\ SessionIdle /\ TreeIdle /\ TypeIdle /\ ExtractIdle /\ SortIdle

NextParse == ParseFinancialStatements

\* one parse_financial_statements call
SpecParse == InitParse /\ [][NextParse]_vars

InitDrill == DrillInit /\ MatchIdle /\ ParseIdle /\ TemplateIdle /\ ScanIdle /\ HandleIdle /\ SessionIdle /\ TreeIdle /\ TypeIdle /\ ExtractIdle /\ SortIdle

NextDrill == DrillDownVariance

\* one drill_down_variance call
SpecDrill == InitDrill /\ [][NextDrill]_vars

InitTemplate == TemplateInit /\ MatchIdle /\ ParseIdle /\ DrillIdle /\ ScanIdle /\ HandleIdle /\ SessionIdle /\ TreeIdle /\ TypeIdle /\ ExtractIdle /\ SortIdle

NextTemplate == SuggestTemplatesFromSamples \/ GeneratePeriods

\* template synthesis followed by expansion
SpecTemplate == InitTemplate /\ [][NextTemplate]_vars

InitScan == ScanInit /\ MatchIdle /\ ParseIdle /\ DrillIdle /\ TemplateIdle /\ HandleIdle /\ SessionIdle /\ TreeIdle /\ TypeIdle /\ ExtractIdle /\ SortIdle

NextScan == DetectPeriodsOfSheet \/ FindHeaderRowOfSheet

\* period detection and header-row search on one sheet
SpecScan == InitScan /\ [][NextScan]_vars

InitHandles == HandleInit /\ MatchIdle /\ ParseIdle /\ DrillIdle /\ TemplateIdle /\ ScanIdle /\ SessionIdle /\ TreeIdle /\ TypeIdle /\ ExtractIdle /\ SortIdle

NextHandles == ParseFollowingHandles

\* one parse call, its workbook handles followed
SpecHandles == InitHandles /\ [][NextHandles]_vars

InitSessions == SessionInit /\ MatchIdle /\ ParseIdle /\ DrillIdle /\ TemplateIdle /\ ScanIdle /\ HandleIdle /\ TreeIdle /\ TypeIdle /\ ExtractIdle /\ SortIdle

NextSessions == UploadModelPair \/ ProcessModels \/ SelectFinancialStatementSheets \/ ApproveDetectedPeriods \/ GetAvailablePeriods \/ GetExecutiveSummaryOfSession \/ DrillDownLineItem

\* requests on the sessions of one server process, in any order
SpecSessions == InitSessions /\ [][NextSessions]_vars

InitTree == TreeInit /\ MatchIdle /\ ParseIdle /\ DrillIdle /\ TemplateIdle /\ ScanIdle /\ HandleIdle /\ SessionIdle /\ TypeIdle /\ ExtractIdle /\ SortIdle

NextTree == BuildDependencyTree

\* one dependency-tree build
SpecTree == InitTree /\ [][NextTree]_vars

InitType == TypeInit /\ MatchIdle /\ ParseIdle /\ DrillIdle /\ TemplateIdle /\ ScanIdle /\ HandleIdle /\ SessionIdle /\ TreeIdle /\ ExtractIdle /\ SortIdle

NextType == DetectTypeOfSheet \/ DetectTypeOfSheetEnhanced

\* sheet-type detection on one sheet, by both parsers
SpecType == InitType /\ [][NextType]_vars

InitExtract == ExtractInit /\ MatchIdle /\ ParseIdle /\ DrillIdle /\ TemplateIdle /\ ScanIdle /\ HandleIdle /\ SessionIdle /\ TreeIdle /\ TypeIdle /\ SortIdle

NextExtract == ExtractLineItemsOfSheet

\* line-item extraction on one sheet
SpecExtract == InitExtract /\ [][NextExtract]_vars

InitSort == SortInit /\ MatchIdle /\ ParseIdle /\ DrillIdle /\ TemplateIdle /\ ScanIdle /\ HandleIdle /\ SessionIdle /\ TreeIdle /\ TypeIdle /\ ExtractIdle

NextSort == SortPeriods

\* the chronological sort of one list of periods
SpecSort == InitSort /\ [][NextSort]_vars

====
